---- MODULE Spec2Model ----
(***************************************************************************)
(* Duitku front end: the transaction filter and the filtered statistics of *)
(* the transactions page (src/app/transactions/page.tsx), the values the   *)
(* dashboard derives on each render (src/app/page.tsx: summary, account    *)
(* balances, monthly and daily trend, category breakdown, recent           *)
(* transactions), the loading of the three collections by both pages, the  *)
(* create and delete handlers of the transactions page, and the session    *)
(* (hooks/useAuth, components/Protected, the login page).                  *)
(*                                                                         *)
(* Spec explores the filter panel, SpecQuick the quick filter buttons,     *)
(* SpecHome the renders of the dashboard on loaded data, SpecLoad the      *)
(* calls of loadData and loadDashboardData, SpecOps the transactions page  *)
(* as a user can drive it (create, delete, reloads), SpecForm the handler  *)
(* onCreateTransaction on every form state, and SpecAuth page loads,       *)
(* login, logout and the route guard.                                      *)
(* Amounts are whole numbers; sums of them are exact in double arithmetic. *)
(*                                                                         *)
(* JavaScript strings whose characters matter (descriptions, names, the    *)
(* search query, the amount bounds) are sequences of one-character         *)
(* strings.  Identifiers (ids, the type literal) are only ever compared    *)
(* for equality and are TLA+ strings.  ISO dates "YYYY-MM-DD" are triples  *)
(* <<y, m, d>>; the empty string is the empty sequence in both cases.      *)
(***************************************************************************)
EXTENDS Integers, Sequences, FiniteSets, TLC

\* ------------------------------------------------------------------------
\* Bounds of the exploration
\* ------------------------------------------------------------------------
MaxTx == 3

MaxHomeTx == 3

MaxActiveFilters == 2
\* calls of loadData and loadDashboardData in one behaviour
MaxLoads == 2
\* changes of the data held by the backend in one behaviour
MaxServerVersion == 1
\* calls of onCreateTransaction and onDelete in one behaviour
MaxOps == 2

\* ------------------------------------------------------------------------
\* JavaScript values
\* ------------------------------------------------------------------------
\* null / undefined for an identifier-valued field (category_id?: string)
Null == "<null>"

\* null / undefined for a character-string field (description?: string)
NullStr == <<"<null>">>

\* the empty JavaScript string
EmptyStr == <<>>

\* undefined for an object-valued expression; a defined object x is <<x>>
Undefined == <<>>

\* JavaScript truthiness of an identifier-valued field
TruthyId(x) == x # Null /\ x # ""

\* JavaScript truthiness of a character string (or date string)
TruthyStr(s) == s # NullStr /\ s # EmptyStr

\* String.prototype.toLowerCase, one character
LowerChar(c) ==
  CASE c = "A" -> "a" [] c = "B" -> "b" [] c = "C" -> "c" [] c = "D" -> "d"
    [] c = "E" -> "e" [] c = "F" -> "f" [] c = "G" -> "g" [] c = "H" -> "h"
    [] c = "I" -> "i" [] c = "J" -> "j" [] c = "K" -> "k" [] c = "L" -> "l"
    [] c = "M" -> "m" [] c = "N" -> "n" [] c = "O" -> "o" [] c = "P" -> "p"
    [] c = "Q" -> "q" [] c = "R" -> "r" [] c = "S" -> "s" [] c = "T" -> "t"
    [] c = "U" -> "u" [] c = "V" -> "v" [] c = "W" -> "w" [] c = "X" -> "x"
    [] c = "Y" -> "y" [] c = "Z" -> "z" [] OTHER -> c

\* String.prototype.toLowerCase
toLowerCase(s) == [i \in 1..Len(s) |-> LowerChar(s[i])]

\* String.prototype.includes: needle occurs as a contiguous substring
includes(s, needle) ==
  \E i \in 0..(Len(s) - Len(needle)) :
     SubSeq(s, i + 1, i + Len(needle)) = needle

\* s without its first n characters
Drop(s, n) == SubSeq(s, n + 1, Len(s))

StartsWith(s, p) == Len(s) >= Len(p) /\ SubSeq(s, 1, Len(p)) = p

\* ------------------------------------------------------------------------
\* parseFloat (ECMAScript 19.2.4): the value of the longest prefix of the
\* trimmed string that is a StrDecimalLiteral, NaN when there is none.  A
\* number is the exact rational num / den; +-Infinity has den = 0.
\* ------------------------------------------------------------------------
WhiteSpace == {" ", "\t", "\n"}

Digits == {"0", "1", "2", "3", "4", "5", "6", "7", "8", "9"}

DigitVal(c) ==
  CASE c = "0" -> 0 [] c = "1" -> 1 [] c = "2" -> 2 [] c = "3" -> 3
    [] c = "4" -> 4 [] c = "5" -> 5 [] c = "6" -> 6 [] c = "7" -> 7
    [] c = "8" -> 8 [] c = "9" -> 9

RECURSIVE LeadingIn(_, _)
\* number of leading characters of s that belong to the set cs
LeadingIn(s, cs) ==
  IF s = <<>> \/ Head(s) \notin cs THEN 0 ELSE 1 + LeadingIn(Tail(s), cs)

RECURSIVE Pow10(_)
Pow10(n) == IF n = 0 THEN 1 ELSE 10 * Pow10(n - 1)

NaN == [kind |-> "nan", num |-> 0, den |-> 0]

InfinityLit == <<"I", "n", "f", "i", "n", "i", "t", "y">>

\* s without one leading sign
StripSign(s) ==
  IF s # <<>> /\ Head(s) \in {"+", "-"} THEN Tail(s) ELSE s

\* The scanner of the decimal literal.  phase: "start" (white space),
\* "int" (integer digits), "frac" (digits after the point), "exp" (after
\* e or E), "expsign" (after the sign of the exponent), "expdigits".
ScanStart ==
  [phase |-> "start", sign |-> 1, mant |-> 0, ndigits |-> 0, nfrac |-> 0,
   esign |-> 1, expo |-> 0]

\* the character c continues the literal scanned so far
ScanAccepts(st, c) ==
  CASE st.phase = "start" -> c \in WhiteSpace \cup Digits \cup {"+", "-", "."}
    [] st.phase = "int" ->
         c \in Digits \cup {"."} \/ (c \in {"e", "E"} /\ st.ndigits > 0)
    [] st.phase = "frac" ->
         c \in Digits \/ (c \in {"e", "E"} /\ st.ndigits > 0)
    [] st.phase = "exp" -> c \in Digits \cup {"+", "-"}
    [] st.phase = "expsign" -> c \in Digits
    [] st.phase = "expdigits" -> c \in Digits

\* the scanner state after the accepted character c
ScanStep(st, c) ==
  CASE st.phase = "start" /\ c \in WhiteSpace -> st
    [] st.phase = "start" /\ c \in {"+", "-"} ->
         [st EXCEPT !.phase = "int", !.sign = IF c = "-" THEN -1 ELSE 1]
    [] st.phase \in {"start", "int"} /\ c \in Digits ->
         [st EXCEPT !.phase = "int", !.mant = 10 * @ + DigitVal(c),
                    !.ndigits = @ + 1]
    [] st.phase \in {"start", "int"} /\ c = "." -> [st EXCEPT !.phase = "frac"]
    [] st.phase = "frac" /\ c \in Digits ->
         [st EXCEPT !.mant = 10 * @ + DigitVal(c), !.ndigits = @ + 1,
                    !.nfrac = @ + 1]
    [] st.phase \in {"int", "frac"} /\ c \in {"e", "E"} ->
         [st EXCEPT !.phase = "exp"]
    [] st.phase = "exp" /\ c \in {"+", "-"} ->
         [st EXCEPT !.phase = "expsign", !.esign = IF c = "-" THEN -1 ELSE 1]
    [] st.phase \in {"exp", "expsign", "expdigits"} /\ c \in Digits ->
         [st EXCEPT !.phase = "expdigits", !.expo = 10 * @ + DigitVal(c)]

RECURSIVE Scan(_, _, _)
\* the scanner state at the end of the longest literal of s from index i on
Scan(s, i, st) ==
  IF i > Len(s) THEN st
  ELSE IF ~ScanAccepts(st, s[i]) THEN st
  ELSE CHOOSE r \in { Scan(s, i + 1, next) : next \in { ScanStep(st, s[i]) } } :
         TRUE

\* the number the scanned literal denotes; an exponent without digits
\* (expo = 0) is not part of the literal
ScanValue(st) ==
  IF st.ndigits = 0 THEN NaN
  ELSE [kind |-> "num",
        num  |-> st.sign * st.mant * (IF st.esign = 1 THEN Pow10(st.expo) ELSE 1),
        den  |-> Pow10(st.nfrac) * (IF st.esign = -1 THEN Pow10(st.expo) ELSE 1)]

parseFloat(str) ==
  CHOOSE r \in
    { IF StartsWith(StripSign(body), InfinityLit)
        THEN [kind |-> "inf",
              num  |-> IF Head(body) = "-" THEN -1 ELSE 1,
              den  |-> 0]
        ELSE ScanValue(Scan(body, 1, ScanStart)) :
      body \in { Drop(str, LeadingIn(str, WhiteSpace)) } } : TRUE

isNaN(x) == x.kind = "nan"

\* a < x for a finite integer a and a parsed, non-NaN x
NumLt(a, x) == IF x.kind = "inf" THEN x.num > 0 ELSE a * x.den < x.num

\* a > x for a finite integer a and a parsed, non-NaN x
NumGt(a, x) == IF x.kind = "inf" THEN x.num < 0 ELSE a * x.den > x.num

\* ------------------------------------------------------------------------
\* Dates.  An ISO date string "YYYY-MM-DD" is the triple <<y, m, d>>.
\* ------------------------------------------------------------------------
\* a < b on two non-empty ISO date strings (the < of lines 217-218 compares
\* the strings character by character; on zero-padded fixed-width dates
\* that is the lexicographic order of year, month, day)
DateStrLt(a, b) ==
  \/ a[1] < b[1]
  \/ a[1] = b[1] /\ a[2] < b[2]
  \/ a[1] = b[1] /\ a[2] = b[2] /\ a[3] < b[3]

\* days from 1970-01-01 to the civil date <<y, m, d>>
DaysFromCivil(dt) ==
  LET y   == IF dt[2] <= 2 THEN dt[1] - 1 ELSE dt[1]
      era == y \div 400
      yoe == y - era * 400
      mp  == (dt[2] + 9) % 12
      doy == (153 * mp + 2) \div 5 + dt[3] - 1
      doe == yoe * 365 + yoe \div 4 - yoe \div 100 + doy
  IN  era * 146097 + doe - 719468

\* new Date("YYYY-MM-DD").getTime(): a date-only ISO string is UTC
\* midnight; the value is kept in days (milliseconds / 86400000)
getTime(dt) == DaysFromCivil(dt)

\* the civil date <<y, m, d>> that lies the given number of days after
\* 1970-01-01 (the inverse of DaysFromCivil)
CivilFromDays(days) ==
  LET z   == days + 719468
      era == z \div 146097
      doe == z - era * 146097
      yoe == (doe - doe \div 1460 + doe \div 36524 - doe \div 146096) \div 365
      doy == doe - (365 * yoe + yoe \div 4 - yoe \div 100)
      mp  == (5 * doy + 2) \div 153
      d   == doy - (153 * mp + 2) \div 5 + 1
      m   == IF mp < 10 THEN mp + 3 ELSE mp - 9
      y   == yoe + era * 400
  IN  << IF m <= 2 THEN y + 1 ELSE y, m, d >>

\* new Date(): the instant of the call, held as the calendar date of the
\* local time zone plus utcShift, the number of days by which the UTC
\* calendar date of the same instant differs from the local one (-1 in the
\* small hours east of Greenwich, 1 in the evening west of it, else 0)
DateNow(localDate, utcShift) == [local |-> localDate, utcShift |-> utcShift]

\* date.getMonth(): zero-based month of the local date
getMonth(date) == date.local[2] - 1

\* date.getDate(): day of the month of the local date
getDate(date) == date.local[3]

\* date.setMonth(month): the local year and day of the month are kept and
\* the month is replaced; a month outside 0..11 carries into the year and a
\* day beyond the end of the resulting month carries into the next month
setMonth(date, month) ==
  LET year  == date.local[1] + month \div 12
      first == DaysFromCivil(<<year, (month % 12) + 1, 1>>)
  IN  [date EXCEPT !.local = CivilFromDays(first + date.local[3] - 1)]

\* date.setDate(day): the local year and month are kept and the day of the
\* month is replaced; a day outside the month carries into the neighbours
setDate(date, day) ==
  LET first == DaysFromCivil(<<date.local[1], date.local[2], 1>>)
  IN  [date EXCEPT !.local = CivilFromDays(first + day - 1)]

\* date.toISOString().split('T')[0]: the calendar date in UTC
toISODate(date) == CivilFromDays(DaysFromCivil(date.local) + date.utcShift)

\* date.toISOString().slice(0, 7): "YYYY-MM" of the calendar date in UTC
toISOMonth(date) == << toISODate(date)[1], toISODate(date)[2] >>

\* t.date.startsWith(monthStr) on an ISO date string
DateStartsWith(dt, monthStr) == << dt[1], dt[2] >> = monthStr

\* date.toLocaleDateString('id-ID', {month: 'short', year: 'numeric'}): the
\* label names the month and year of the local date
MonthLabel(date) == << date.local[1], date.local[2] >>

\* date.toLocaleDateString('id-ID', {weekday: 'short'}): the label names the
\* day of the week of the local date, 0 = Sunday (1970-01-01 was a Thursday)
WeekdayLabel(date) == (DaysFromCivil(date.local) + 4) % 7

RECURSIVE SortByDate(_, _)
\* Array.prototype.sort with the comparator
\*   dir * (new Date(a.date).getTime() - new Date(b.date).getTime()),
\* dir = 1 ascending, dir = -1 descending.  The sort is stable: an element
\* goes behind every element that does not compare greater than it.
SortByDate(ts, dir) ==
  IF ts = <<>> THEN <<>>
  ELSE LET sorted == SortByDate(SubSeq(ts, 1, Len(ts) - 1), dir)
           x      == ts[Len(ts)]
           before == SelectSeq(sorted,
                       LAMBDA e : dir * (getTime(e.date) - getTime(x.date)) <= 0)
           after  == SelectSeq(sorted,
                       LAMBDA e : dir * (getTime(e.date) - getTime(x.date)) > 0)
       IN  before \o <<x>> \o after

\* ------------------------------------------------------------------------
\* Data returned by the backend
\* ------------------------------------------------------------------------
D1 == <<2024, 1, 1>>

D2 == <<2024, 1, 5>>

D3 == <<2024, 2, 1>>

StrFoodDining == <<"F","o","o","d"," ","&"," ","D","i","n","i","n","g">>

StrTransport == <<"T","r","a","n","s","p","o","r","t">>

StrCash == <<"C","a","s","h">>

StrBank == <<"B","a","n","k">>

StrLunch == <<"L","u","n","c","h">>

StrFoodCourt == <<"F","O","O","D"," ","c","o","u","r","t">>

StrUnknownAccount ==
  <<"U","n","k","n","o","w","n"," ","A","c","c","o","u","n","t">>

StrUncategorized ==
  <<"U","n","c","a","t","e","g","o","r","i","z","e","d">>

StrUnknownCategory ==
  <<"U","n","k","n","o","w","n"," ","C","a","t","e","g","o","r","y">>

Account(id, name, initial) ==
  [id |-> id, name |-> name, initial_balance |-> initial]

Category(id, name) == [id |-> id, name |-> name]

Transaction(id, acc, cat, date, desc, amount, type, after, created) ==
  [id |-> id, account_id |-> acc, category_id |-> cat, date |-> date,
   description |-> desc, amount |-> amount, type |-> type,
   balance_after |-> after, created_at |-> created]

AllAccounts == <<Account("a1", StrCash, 100000), Account("a2", StrBank, 0)>>

AllCategories == <<Category("c1", StrFoodDining), Category("c2", StrTransport)>>

\* the account and category collections a load can return
Collections ==
  { [accounts |-> AllAccounts, categories |-> AllCategories],
    [accounts |-> <<>>,        categories |-> <<>>] }

\* transactions the backend can hold for the transactions page; "a3" and
\* "c9" reference an account and a category that no collection contains
TxUniverse ==
  { Transaction("t1", "a1", "c1", D1, EmptyStr,     15,     "EXPENSE", 99985,  1),
    Transaction("t2", "a2", Null, D2, StrLunch,     20,     "EXPENSE", -20,    2),
    Transaction("t3", "a1", "c2", D3, NullStr,      5,      "INCOME",  99990,  3),
    Transaction("t4", "a3", "c9", D2, StrFoodCourt, 100000, "INCOME",  100000, 4) }

Range(q) == { q[i] : i \in 1..Len(q) }

\* all sequences of at most n pairwise distinct elements of S
RECURSIVE DistinctSeqs(_, _)
DistinctSeqs(S, n) ==
  IF n = 0 THEN { <<>> }
  ELSE LET shorter == DistinctSeqs(S, n - 1)
       IN  shorter \cup
           UNION { { Append(q, x) : x \in S \ Range(q) } :
                   q \in { r \in shorter : Len(r) = n - 1 } }

\* SumAmount with a callback that returns t.amount instead of sum + t.amount
SumAmount_Overwrite(ts) == IF ts = <<>> THEN 0 ELSE ts[Len(ts)].amount

RECURSIVE SumAmount(_)
\* ts.reduce((sum, t) => sum + t.amount, 0): a left fold from 0
SumAmount(ts) ==
  IF ts = <<>> THEN 0
  ELSE SumAmount(SubSeq(ts, 1, Len(ts) - 1)) + ts[Len(ts)].amount

\* ts.filter(t => t.type === type)
OfType(ts, type) == SelectSeq(ts, LAMBDA t : t.type = type)

\* Summarize without the type filter of the expense total
Summarize_ExpenseOfAll(ts) ==
  LET totalIncome  == SumAmount(OfType(ts, "INCOME"))
      totalExpense == SumAmount(ts)
  IN  [totalIncome  |-> totalIncome,
       totalExpense |-> totalExpense,
       netBalance   |-> totalIncome - totalExpense,
       incomeCount  |-> Len(OfType(ts, "INCOME")),
       expenseCount |-> Len(OfType(ts, "EXPENSE"))]

\* totalIncome, totalExpense and netBalance of a list, with the two counts
\* the summary cards show next to them
Summarize(ts) ==
  LET totalIncome  == SumAmount(OfType(ts, "INCOME"))
      totalExpense == SumAmount(OfType(ts, "EXPENSE"))
  IN  [totalIncome  |-> totalIncome,
       totalExpense |-> totalExpense,
       netBalance   |-> totalIncome - totalExpense,
       incomeCount  |-> Len(OfType(ts, "INCOME")),
       expenseCount |-> Len(OfType(ts, "EXPENSE"))]

\* ------------------------------------------------------------------------
\* State
\* ------------------------------------------------------------------------
VARIABLES
  transactions,          \* TransactionsPage: useState<Transaction[]>
  accounts,              \* TransactionsPage: useState<Account[]>
  categories,            \* TransactionsPage: useState<Category[]>
  filters,               \* TransactionsPage: useState<TransactionFilters>
  filteredTransactions,  \* TransactionsPage: value computed by the last render
  renderThrew,           \* TransactionsPage: the last render threw
  filteredSummary,       \* TransactionsPage: filtered statistics of the last render
  homeTransactions,      \* HomePage: useState<Transaction[]>
  homeAccounts,          \* HomePage: useState<Account[]>
  homeCategories,        \* HomePage: useState<Category[]>
  accountBalances,       \* HomePage: value computed by the last render
  now,                   \* HomePage: new Date() of the last render
  summary,               \* HomePage: totals and counts of the last render
  monthlyData,           \* HomePage: value computed by the last render
  categoryData,          \* HomePage: value computed by the last render
  recentTransactions,    \* HomePage: value computed by the last render
  weeklyData,            \* HomePage: value computed by the last render
  route,                 \* the page that is mounted, e.g. "home", "transactions"
  session,               \* AuthProvider: useState<Session | null>
  server,                \* backend: version of the data it holds
  loads,                 \* the calls of loadData / loadDashboardData so far
  origin,                \* history: the call each collection in state came from
  dataLoading,           \* TransactionsPage: useState(true)
  error,                 \* TransactionsPage: useState<string | null>
  homeLoading,           \* HomePage: useState(false), "loading"
  localStorage,          \* browser: the item "session" of localStorage
  updates,               \* AuthProvider: setSession calls not yet rendered
  effects,               \* React: effects of the last commit still to run
  view,                  \* Protected: what its last render returned
  navigation,            \* browser / router: the navigation under way
  loading,               \* TransactionsPage: useState(false)
  successMessage,        \* TransactionsPage: useState<string | null>
  form,                  \* TransactionsPage: the six useState of the form
  ops                    \* the calls of onCreateTransaction / onDelete so far

pageVars == <<transactions, accounts, categories, filters, filteredTransactions,
              renderThrew, filteredSummary>>

homeVars == <<homeTransactions, homeAccounts, homeCategories, accountBalances,
              now, summary, monthlyData, categoryData, recentTransactions,
              weeklyData>>

loadVars == <<route, session, server, loads, origin, dataLoading, error, homeLoading>>

authVars == <<localStorage, updates, effects, view, navigation>>

opVars == <<loading, successMessage, form, ops>>

vars == <<pageVars, homeVars, loadVars, authVars, opVars>>

\* ------------------------------------------------------------------------
\* TransactionsPage: the filter (src/app/transactions/page.tsx)
\* ------------------------------------------------------------------------
NoFilters ==
  [dateFrom |-> EmptyStr, dateTo |-> EmptyStr, accountId |-> "",
   categoryId |-> "", type |-> "", minAmount |-> EmptyStr,
   maxAmount |-> EmptyStr, searchQuery |-> EmptyStr]

\* list.find(x => x.id === id): the first match as <<x>>, Undefined when
\* there is none
FindById(list, id) ==
  IF \E i \in 1..Len(list) : list[i].id = id
    THEN << list[CHOOSE i \in 1..Len(list) :
                   /\ list[i].id = id
                   /\ \A j \in 1..(i - 1) : list[j].id # id] >>
    ELSE Undefined

getAccountName(accs, accountId) ==
  LET account == FindById(accs, accountId)
  IN  IF account # Undefined /\ TruthyStr(account[1].name)
        THEN account[1].name ELSE StrUnknownAccount

getCategoryName(cats, categoryId) ==
  IF ~TruthyId(categoryId) THEN StrUncategorized
  ELSE LET category == FindById(cats, categoryId)
       IN  IF category # Undefined /\ TruthyStr(category[1].name)
             THEN category[1].name ELSE StrUnknownCategory

\* Source lines of the component body: the statement that runs the filter
\* callback, and the const declarations of the two name helpers.
FilterLine == 215

GetAccountNameLine == 407

GetCategoryNameLine == 412

\* A const binding of a function body is initialised when execution reaches
\* its declaration; a read at an earlier statement of the same run of the
\* body finds it in its temporal dead zone and throws a ReferenceError.
Initialised(declLine, useLine) == declLine < useLine

\* CategoryRejects without the outer test of filters.categoryId
CategoryRejects_NoGuard(t, f) ==
  \/ f.categoryId = "uncategorized" /\ TruthyId(t.category_id)
  \/ f.categoryId # "uncategorized" /\ t.category_id # f.categoryId

\* lines 224-227: the category filter rejects the transaction
CategoryRejects(t, f) ==
  /\ f.categoryId # ""
  /\ \/ f.categoryId = "uncategorized" /\ TruthyId(t.category_id)
     \/ f.categoryId # "uncategorized" /\ t.category_id # f.categoryId

\* AmountRejects where a bound that does not parse rejects the transaction
AmountRejects_NaNRejects(t, f) ==
  LET minAmount == parseFloat(f.minAmount)
      maxAmount == parseFloat(f.maxAmount)
  IN  \/ f.minAmount # EmptyStr /\ (isNaN(minAmount) \/ NumLt(t.amount, minAmount))
      \/ f.maxAmount # EmptyStr /\ (isNaN(maxAmount) \/ NumGt(t.amount, maxAmount))

\* lines 233-236: the amount range filter rejects the transaction
AmountRejects(t, f) ==
  LET minAmount == parseFloat(f.minAmount)
      maxAmount == parseFloat(f.maxAmount)
  IN  \/ ~isNaN(minAmount) /\ NumLt(t.amount, minAmount)
      \/ ~isNaN(maxAmount) /\ NumGt(t.amount, maxAmount)

\* lines 240-250: the search filter on a transaction that reached it;
\* the description is computed first, then getAccountName is read
SearchOutcome(t, f, accs, cats) ==
  LET searchLower == toLowerCase(f.searchQuery)
      description ==
        toLowerCase(IF TruthyStr(t.description) THEN t.description ELSE EmptyStr)
  IN  IF ~Initialised(GetAccountNameLine, FilterLine) THEN "throw"
      ELSE IF ~Initialised(GetCategoryNameLine, FilterLine) THEN "throw"
      ELSE IF /\ ~includes(description, searchLower)
              /\ ~includes(toLowerCase(getAccountName(accs, t.account_id)),
                           searchLower)
              /\ ~includes(toLowerCase(getCategoryName(cats, t.category_id)),
                           searchLower)
        THEN "false"
      ELSE "true"

\* The callback of transactions.filter: "true", "false", or "throw"
FilterCallback(t, f, accs, cats) ==
  IF TruthyStr(f.dateFrom) /\ DateStrLt(t.date, f.dateFrom) THEN "false"
  ELSE IF TruthyStr(f.dateTo) /\ DateStrLt(f.dateTo, t.date) THEN "false"
  ELSE IF f.accountId # "" /\ t.account_id # f.accountId THEN "false"
  ELSE IF CategoryRejects(t, f) THEN "false"
  ELSE IF f.type # "" /\ t.type # f.type THEN "false"
  ELSE IF AmountRejects(t, f) THEN "false"
  ELSE IF TruthyStr(f.searchQuery) THEN SearchOutcome(t, f, accs, cats)
  ELSE "true"

\* transactions.filter(callback): the callback runs on every element in
\* order; an exception thrown by one call propagates out of the render and
\* no array is produced
FilterThrows(ts, f, accs, cats) ==
  \E i \in 1..Len(ts) : FilterCallback(ts[i], f, accs, cats) = "throw"

\* FilterTransactions that returns the retained transactions newest first
FilterTransactions_Sorted(ts, f, accs, cats) ==
  IF FilterThrows(ts, f, accs, cats)
    THEN <<>>
    ELSE SortByDate(
           SelectSeq(ts, LAMBDA t : FilterCallback(t, f, accs, cats) = "true"),
           -1)

FilterTransactions(ts, f, accs, cats) ==
  IF FilterThrows(ts, f, accs, cats)
    THEN <<>>
    ELSE SelectSeq(ts, LAMBDA t : FilterCallback(t, f, accs, cats) = "true")

\* number of filter fields that are not the empty string
ActiveCount(f) ==
  Cardinality({ k \in {"dateFrom", "dateTo", "minAmount", "maxAmount",
                       "searchQuery"} : f[k] # EmptyStr })
  + Cardinality({ k \in {"accountId", "categoryId", "type"} : f[k] # "" })

\* An exception thrown while rendering unmounts the component: its
\* handlers can run only as long as no render has thrown.  setFilters
\* replaces the state and React runs the component body again.
\* The values a run of the TransactionsPage body derives from its state:
\* the filtered list and, when the filter did not throw, its statistics
PageRender(ts, f, accs, cats) ==
  /\ filteredTransactions' = FilterTransactions(ts, f, accs, cats)
  /\ renderThrew' = FilterThrows(ts, f, accs, cats)
  /\ filteredSummary' = Summarize(filteredTransactions')

SetFilters(f) ==
  /\ ~renderThrew
  /\ ActiveCount(f) <= MaxActiveFilters
  /\ filters' = f
  /\ PageRender(transactions, f, accounts, categories)
  /\ UNCHANGED <<transactions, accounts, categories>>
  /\ UNCHANGED <<homeVars, loadVars, authVars, opVars>>

\* values the inputs and selects of the filter panel can deliver
DateInputs == { EmptyStr, D2 }

AmountInputs == { EmptyStr, <<"a","b","c">>, <<"1","2","a","b","c">>, <<"2","0">> }

SearchInputs == { EmptyStr, <<"f","o","o","d">>, <<"U","n">>, <<"z","z","z">> }

AccountOptions == { "" } \cup { accounts[i].id : i \in 1..Len(accounts) }

CategoryOptions ==
  { "", "uncategorized" } \cup { categories[i].id : i \in 1..Len(categories) }

TypeOptions == { "", "INCOME", "EXPENSE" }

SetSearchQuery == \E v \in SearchInputs : SetFilters([filters EXCEPT !.searchQuery = v])

SetDateFrom == \E v \in DateInputs : SetFilters([filters EXCEPT !.dateFrom = v])

SetDateTo == \E v \in DateInputs : SetFilters([filters EXCEPT !.dateTo = v])

SetAccountId == \E v \in AccountOptions : SetFilters([filters EXCEPT !.accountId = v])

SetCategoryId == \E v \in CategoryOptions : SetFilters([filters EXCEPT !.categoryId = v])

SetType == \E v \in TypeOptions : SetFilters([filters EXCEPT !.type = v])

SetMinAmount == \E v \in AmountInputs : SetFilters([filters EXCEPT !.minAmount = v])

SetMaxAmount == \E v \in AmountInputs : SetFilters([filters EXCEPT !.maxAmount = v])

clearFilters == SetFilters(NoFilters)

\* ------------------------------------------------------------------------
\* HomePage: account balances (src/app/page.tsx)
\* ------------------------------------------------------------------------
\* transactions the backend can hold for the dashboard
HomeTxUniverse ==
  { Transaction("h1", "a1", Null, D1, EmptyStr, 50000, "EXPENSE", 50000, 1),
    Transaction("h2", "a1", Null, D2, EmptyStr, 20000, "INCOME",  70000, 2),
    Transaction("h3", "a1", "c1", D2, StrLunch, 5000,  "EXPENSE", 65000, 3),
    Transaction("h4", "a1", "c1", D3, StrLunch, 65000, "EXPENSE", 0,     4),
    Transaction("h5", "a2", "c1", D1, StrLunch, 10,    "INCOME",  10,    5),
    Transaction("h6", "a2", "c2", D3, EmptyStr, 5000,  "EXPENSE", -4990, 6),
    Transaction("h7", "a2", "",   D2, EmptyStr, 75000, "EXPENSE", -79990, 7) }

\* the account collections a load can return
HomeAccountLists ==
  { <<>>, <<AllAccounts[1]>>, AllAccounts, <<AllAccounts[2], AllAccounts[1]>> }

\* the category collections a load can return
HomeCategoryLists ==
  { <<>>, <<AllCategories[1]>>, AllCategories,
    <<AllCategories[2], AllCategories[1]>> }

\* the account and category collections a load of the dashboard can return
HomeCollections ==
  { [accounts |-> a, categories |-> AllCategories] : a \in HomeAccountLists }
    \cup
  { [accounts |-> AllAccounts, categories |-> c] : c \in HomeCategoryLists }

\* instants at which the dashboard can be rendered
Nows ==
  { DateNow(<<2024, 2, 5>>, 0),  DateNow(<<2024, 3, 31>>, 0),
    DateNow(<<2024, 3, 1>>, -1), DateNow(<<2024, 1, 5>>, 1),
    DateNow(<<2024, 3, 30>>, 0) }

\* arr[index] of a JavaScript array, zero-based: Undefined out of range
ArrayAt(arr, index) ==
  IF index \in 0..(Len(arr) - 1) THEN <<arr[index + 1]>> ELSE Undefined

\* JavaScript truthiness of a number
TruthyNum(n) == n # 0

\* CurrentBalance without the fallback to the initial balance
CurrentBalance_NoFallback(lastTransaction, account) ==
  IF lastTransaction # Undefined
    THEN lastTransaction[1].balance_after
    ELSE 0

\* lastTransaction?.balance_after || account.initial_balance
CurrentBalance(lastTransaction, account) ==
  IF lastTransaction # Undefined /\ TruthyNum(lastTransaction[1].balance_after)
    THEN lastTransaction[1].balance_after
    ELSE account.initial_balance

\* the callback of accounts.map
AccountBalance(account, ts) ==
  LET accountTransactions ==
        SortByDate(SelectSeq(ts, LAMBDA t : t.account_id = account.id), 1)
      lastTransaction ==
        ArrayAt(accountTransactions, Len(accountTransactions) - 1)
  IN  [id               |-> account.id,
       name             |-> account.name,
       initial_balance  |-> account.initial_balance,
       currentBalance   |-> CurrentBalance(lastTransaction, account),
       transactionCount |-> Len(accountTransactions)]

AccountBalances(accs, ts) ==
  [i \in 1..Len(accs) |-> AccountBalance(accs[i], ts)]

\* number of entries of the monthly trend
MonthCount == 6

\* number of entries of the daily trend
DayCount == 7

\* the Date of iteration i of the monthly loop
MonthDate(instant, i) == setMonth(instant, getMonth(instant) - i)

\* the Date of iteration i of the daily loop
DayDate(instant, i) == setDate(instant, getDate(instant) - i)

\* the object pushed by iteration i of the monthly loop
MonthEntry(ts, instant, i) ==
  LET date              == MonthDate(instant, i)
      monthStr          == toISOMonth(date)
      monthTransactions == SelectSeq(ts, LAMBDA t : DateStartsWith(t.date, monthStr))
      monthIncome       == SumAmount(OfType(monthTransactions, "INCOME"))
      monthExpense      == SumAmount(OfType(monthTransactions, "EXPENSE"))
  IN  [month   |-> MonthLabel(date),
       income  |-> monthIncome,
       expense |-> monthExpense,
       net     |-> monthIncome - monthExpense]

\* MonthlyData pushing an entry only for a month that has transactions
MonthlyData_SkipEmpty(ts, instant) ==
  SelectSeq([k \in 1..MonthCount |-> MonthEntry(ts, instant, MonthCount - k)],
            LAMBDA e : e.income # 0 \/ e.expense # 0)

\* monthlyData: the loop runs i = 5, 4, .., 0 and pushes one entry each time
MonthlyData(ts, instant) ==
  [k \in 1..MonthCount |-> MonthEntry(ts, instant, MonthCount - k)]

\* the object pushed by iteration i of the daily loop
DayEntry(ts, instant, i) ==
  LET date            == DayDate(instant, i)
      dateStr         == toISODate(date)
      dayTransactions == SelectSeq(ts, LAMBDA t : t.date = dateStr)
  IN  [day     |-> WeekdayLabel(date),
       income  |-> SumAmount(OfType(dayTransactions, "INCOME")),
       expense |-> SumAmount(OfType(dayTransactions, "EXPENSE"))]

\* weeklyData: the loop runs i = 6, 5, .., 0 and pushes one entry each time
WeeklyData(ts, instant) ==
  [k \in 1..DayCount |-> DayEntry(ts, instant, DayCount - k)]

\* A percentage string is held as the number it spells: digits / 10^fraction.
\* x.toFixed(1) for x = (value / total) * 100 with value >= 0 < total: the
\* string spells n / 10 for the integer n for which n / 10 - x is closest to
\* zero, the larger n when two are equally close
toFixed1(value, total) ==
  [digits |-> (2000 * value + total) \div (2 * total), fraction |-> 1]

\* the string "0"
StrZero == [digits |-> 0, fraction |-> 0]

\* Percentage truncating to one decimal instead of rounding
Percentage_Truncated(value, totalExpense) ==
  IF totalExpense > 0
    THEN [digits |-> (1000 * value) \div totalExpense, fraction |-> 1]
    ELSE StrZero

\* totalExpense > 0 ? ((value / totalExpense) * 100).toFixed(1) : "0"
Percentage(value, totalExpense) ==
  IF totalExpense > 0 THEN toFixed1(value, totalExpense) ELSE StrZero

RECURSIVE SortByValue(_)
\* Array.prototype.sort with the comparator b.value - a.value (value
\* descending).  The sort is stable: an element goes behind every element
\* that does not compare greater than it.
SortByValue(items) ==
  IF items = <<>> THEN <<>>
  ELSE LET sorted == SortByValue(SubSeq(items, 1, Len(items) - 1))
           x      == items[Len(items)]
           before == SelectSeq(sorted, LAMBDA e : x.value - e.value <= 0)
           after  == SelectSeq(sorted, LAMBDA e : x.value - e.value > 0)
       IN  before \o <<x>> \o after

\* the callback of categories.map
CategoryItem(category, ts, totalExpense) ==
  LET categoryExpenses ==
        SumAmount(SelectSeq(ts, LAMBDA t : t.type = "EXPENSE" /\ t.category_id = category.id))
  IN  [name       |-> category.name,
       value      |-> categoryExpenses,
       percentage |-> Percentage(categoryExpenses, totalExpense)]

\* CategoryData keeping the categories that have no expense
CategoryData_KeepZero(cats, ts, totalExpense) ==
  LET mapped == [i \in 1..Len(cats) |-> CategoryItem(cats[i], ts, totalExpense)]
      uncategorizedExpenses ==
        SumAmount(SelectSeq(ts, LAMBDA t : t.type = "EXPENSE" /\ ~TruthyId(t.category_id)))
  IN  IF uncategorizedExpenses > 0
        THEN Append(SortByValue(mapped),
                    [name       |-> StrUncategorized,
                     value      |-> uncategorizedExpenses,
                     percentage |-> Percentage(uncategorizedExpenses, totalExpense)])
        ELSE SortByValue(mapped)

\* categoryData: map, filter and sort over the categories, then the push of
\* the uncategorized expenses behind the sorted entries
CategoryData(cats, ts, totalExpense) ==
  LET mapped == [i \in 1..Len(cats) |-> CategoryItem(cats[i], ts, totalExpense)]
      sorted == SortByValue(SelectSeq(mapped, LAMBDA item : item.value > 0))
      uncategorizedExpenses ==
        SumAmount(SelectSeq(ts, LAMBDA t : t.type = "EXPENSE" /\ ~TruthyId(t.category_id)))
  IN  IF uncategorizedExpenses > 0
        THEN Append(sorted,
                    [name       |-> StrUncategorized,
                     value      |-> uncategorizedExpenses,
                     percentage |-> Percentage(uncategorizedExpenses, totalExpense)])
        ELSE sorted

\* transactions.sort(...).slice(0, 5) on the array already sorted in place
Slice5(sortedTransactions) ==
  SubSeq(sortedTransactions, 1, IF Len(sortedTransactions) < 5
                                  THEN Len(sortedTransactions) ELSE 5)

\* One run of the HomePage body on the loaded collections: accountBalances
\* is computed on copies (filter returns a new array), then
\* recentTransactions sorts the transactions array of the state in place
\* in source order: the totals, the account balances, the monthly trend and
\* the category breakdown read the array as stored; the daily trend reads it
\* after the sort.  new Date() is taken as one instant for the whole run.
HomeRender ==
  \E n \in Nows :
    /\ now' = n
    /\ summary' = Summarize(homeTransactions)
    /\ accountBalances' = AccountBalances(homeAccounts, homeTransactions)
    /\ monthlyData' = MonthlyData(homeTransactions, n)
    /\ categoryData' =
         CategoryData(homeCategories, homeTransactions, summary'.totalExpense)
    /\ homeTransactions' = SortByDate(homeTransactions, -1)
    /\ recentTransactions' = Slice5(homeTransactions')
    /\ weeklyData' = WeeklyData(homeTransactions', n)
    /\ UNCHANGED <<homeAccounts, homeCategories>>
    /\ UNCHANGED <<pageVars, loadVars, authVars, opVars>>

\* ------------------------------------------------------------------------
\* The session (hooks/useAuth) and the route guard (components/Protected)
\* ------------------------------------------------------------------------
\* undefined for a string-valued property
UndefinedId == "<undefined>"

\* null for the session; a session s is <<s>>
NoSession == <<>>

\* sessions the backend can issue; refresh_token is optional
SessionA ==
  [access_token |-> "tokenA", refresh_token |-> "refreshA",
   user_id |-> "u1", email |-> "a@duitku"]

SessionB ==
  [access_token |-> "tokenB", refresh_token |-> UndefinedId,
   user_id |-> "u2", email |-> "b@duitku"]

\* the session of a later login of the user of SessionA
SessionC ==
  [access_token |-> "tokenC", refresh_token |-> UndefinedId,
   user_id |-> "u1", email |-> "a@duitku"]

Sessions == { SessionA, SessionB, SessionC }

\* the properties of a Session in the order login's caller writes them
SessionKeys == <<"access_token", "refresh_token", "user_id", "email">>

\* JSON.stringify(s): the text spells, in their order, the properties of s
\* whose value is not undefined; the text is held as the sequence of its
\* <<key, value>> members
JSONstringify(s) ==
  LET RECURSIVE Members(_)
      Members(i) ==
        IF i > Len(SessionKeys) THEN <<>>
        ELSE LET k == SessionKeys[i]
             IN  IF k \in DOMAIN s /\ s[k] # UndefinedId
                   THEN << <<k, s[k]>> >> \o Members(i + 1)
                   ELSE Members(i + 1)
  IN  Members(1)

\* JSON.parse(raw): an object with exactly the properties the text spells
JSONparse(raw) ==
  [k \in { raw[i][1] : i \in 1..Len(raw) } |->
     LET i == CHOOSE j \in 1..Len(raw) : raw[j][1] = k IN raw[i][2]]

\* no navigation is under way
NoNavigation == [kind |-> "none", to |-> ""]

\* window.location.href = to: the browser loads the page anew
LocationHref(to) == [kind |-> "load", to |-> to]

\* router.replace(to): the router mounts the page in the running application
RouterReplace(to) == [kind |-> "replace", to |-> to]

\* obj[key] of a JavaScript object: undefined for a property it lacks
Get(obj, key) == IF key \in DOMAIN obj THEN obj[key] ELSE UndefinedId

\* localStorage.getItem("session"): the stored text as <<raw>>, null as <<>>
getItem == localStorage

\* useAuth() of hooks/useAuth returns {session, login, logout}: the
\* property loading that Protected destructures is undefined
useAuthLoading == UndefinedId

\* JavaScript truthiness of useAuth().loading
TruthyLoading == useAuthLoading # UndefinedId

\* pages whose content is wrapped in Protected; the dashboard and the login
\* page are not
ProtectedRoutes == { "transactions", "categories", "accounts" }

\* what Protected returns when it renders with the given session: the
\* placeholder while loading, nothing without a session, else the children;
\* "none" stands for a page without Protected
ProtectedRender(r, s) ==
  CASE r \notin ProtectedRoutes -> "none"
    [] TruthyLoading           -> "loading"
    [] s = NoSession           -> "null"
    [] OTHER                   -> "children"

\* the provider and the guard at rest for the session s: the mount effect
\* has run, every setSession is rendered and no effect is left to run
AuthSettled(s) ==
  /\ session = <<s>>
  /\ localStorage = << JSONstringify(s) >>
  /\ updates = <<>>
  /\ effects = {}
  /\ view = ProtectedRender(route, session)
  /\ navigation = NoNavigation

\* ------------------------------------------------------------------------
\* TransactionsPage: the form of a new transaction
\* ------------------------------------------------------------------------
\* the values of the useState calls of the form (lines 142-147) when the
\* page is mounted or the form is reset on the given day
DefaultForm(today) ==
  [accountId |-> "", categoryId |-> "", date |-> toISODate(today),
   description |-> EmptyStr, amount |-> EmptyStr, type |-> "EXPENSE"]

\* the instant at which the page was mounted
MountNow == DateNow(D2, 0)

\* no call of onCreateTransaction or onDelete so far
OpsIdle ==
  /\ loading = FALSE
  /\ successMessage = Null
  /\ form = DefaultForm(MountNow)
  /\ ops = <<>>

\* the call each collection of a page came from; 0 is the initial useState
NoOrigin == [transactions |-> 0, accounts |-> 0, categories |-> 0]

\* no call of loadData or loadDashboardData is in flight
LoadIdle ==
  /\ AuthSettled(SessionA)
  /\ OpsIdle
  /\ server = 0
  /\ loads = <<>>
  /\ origin = [home |-> NoOrigin, transactions |-> NoOrigin]
  /\ dataLoading = FALSE
  /\ error = Null
  /\ homeLoading = FALSE

\* the values the HomePage derives, before its first run
HomeUnrendered ==
  /\ accountBalances = <<>>
  /\ now = DateNow(<<1970, 1, 1>>, 0)
  /\ summary = Summarize(<<>>)
  /\ monthlyData = <<>>
  /\ categoryData = <<>>
  /\ recentTransactions = <<>>
  /\ weeklyData = <<>>

\* the HomePage holding the initial values of its useState calls
HomeEmpty ==
  /\ homeTransactions = <<>>
  /\ homeAccounts = <<>>
  /\ homeCategories = <<>>
  /\ HomeUnrendered

\* the TransactionsPage holding the initial values of its useState calls
PageEmpty ==
  /\ transactions = <<>>
  /\ accounts = <<>>
  /\ categories = <<>>
  /\ filters = NoFilters
  /\ filteredTransactions = <<>>
  /\ renderThrew = FALSE
  /\ filteredSummary = Summarize(<<>>)

\* ------------------------------------------------------------------------
\* loadData (TransactionsPage) and loadDashboardData (HomePage)
\* ------------------------------------------------------------------------
\* the three requests of one call, in the order of the Promise.all array:
\* /transactions, /accounts, /categories
Endpoints == 1..3

\* the first n elements of q, all of q when it has fewer
Prefix(q, n) == SubSeq(q, 1, IF n < Len(q) THEN n ELSE Len(q))

\* what the backend answers to a GET of endpoint k while it is at version
\* v: the versions differ in every collection, so that answers of
\* different versions can be told apart
ServerResponse(v, k) ==
  CASE k = 1 -> Prefix(<<CHOOSE t \in TxUniverse : t.id = "t1",
                         CHOOSE t \in TxUniverse : t.id = "t3",
                         CHOOSE t \in TxUniverse : t.id = "t2">>, v + 1)
    [] k = 2 -> Prefix(AllAccounts, v + 1)
    [] k = 3 -> Prefix(AllCategories, v + 1)

\* a body the backend sends with a response that is not ok
StrServerError == "server error"

\* the bodies of the responses that are not ok; a body can be empty
ErrorBodies == { StrServerError, "" }

\* a response of fetch: res.ok and the body
OkResponse(body) == [ok |-> TRUE, body |-> body]

ErrorResponse(text) == [ok |-> FALSE, body |-> text]

\* new Error(message)
Error(message) == [message |-> message]

\* how an async function settles: it throws a value or returns one
Throws(e) == [thrown |-> TRUE, value |-> e]

Returns(x) == [thrown |-> FALSE, value |-> x]

\* the helper that returns the body of a response that is not ok
ApiHelper_ReturnsError(res) == Returns(res.body)

\* the body shared by the four helpers of lib/api.ts once fetch has
\* answered: a response that is not ok throws an Error whose message is
\* the body text, an ok response returns the parsed body
ApiHelper(res) ==
  IF ~res.ok THEN Throws(Error(res.body)) ELSE Returns(res.body)

apiGet(res) == ApiHelper(res)

apiPost(res) == ApiHelper(res)

apiPut(res) == ApiHelper(res)

\* apiDelete returns nothing on an ok response
apiDelete(res) ==
  IF ~res.ok THEN Throws(Error(res.body)) ELSE Returns(Undefined)

\* err?.message ?? fallback: the fallback replaces only null and undefined
MessageOr(err, fallback) ==
  IF err.message \in { Null, UndefinedId } THEN fallback ELSE err.message

StrFailedToLoad == "Failed to load data"

\* the promise apiGet returned has not settled
Pending == [state |-> "pending", value |-> <<>>]

\* a call that has just started its three requests; since is the version
\* the backend had when they were sent
NewLoad(page) ==
  [page |-> page, status |-> "pending", since |-> server,
   fetches |-> [k \in Endpoints |-> Pending]]

\* Promise.race in the place of Promise.all: fulfilled with the first answer
PromiseAllFulfilled_Race(load) ==
  \E k \in Endpoints : load.fetches[k].state = "fulfilled"

\* Promise.all fulfils when every promise of the array is fulfilled
PromiseAllFulfilled(load) ==
  \A k \in Endpoints : load.fetches[k].state = "fulfilled"

\* loadData from its session check to its await: the busy flag is raised,
\* the error is cleared and the three requests are sent
loadDataBegins ==
  /\ loads' = Append(loads, NewLoad("transactions"))
  /\ dataLoading' = TRUE
  /\ error' = Null

\* loadData as the effect on [session] calls it (the call returns at once
\* without a session)
loadData ==
  /\ route = "transactions"
  /\ session # NoSession
  /\ Len(loads) < MaxLoads
  /\ loadDataBegins
  /\ UNCHANGED <<route, session, server, origin, homeLoading>>
  /\ UNCHANGED <<pageVars, homeVars, authVars, opVars>>

\* loadDashboardData up to its await
loadDashboardData ==
  /\ route = "home"
  /\ session # NoSession
  /\ Len(loads) < MaxLoads
  /\ loads' = Append(loads, NewLoad("home"))
  /\ homeLoading' = TRUE
  /\ UNCHANGED <<route, session, server, origin, dataLoading, error>>
  /\ UNCHANGED <<pageVars, homeVars, authVars, opVars>>

\* instants at which the form can be reset
FormNows == { MountNow, DateNow(D3, 0) }

StrAdded == "Transaction added successfully!"

StrDeleted == "Transaction deleted successfully!"

\* the calls of onCreateTransaction and onDelete that wait for the call id
\* of loadData
Awaiting(id) ==
  { i \in 1..Len(ops) : ops[i].status = "reloading" /\ ops[i].load = id }

\* the handler that awaits call id of loadData resumes behind its await
\* when the call has settled (loadData catches its own errors, so the await
\* never throws): onCreateTransaction resets the form, both handlers start
\* the timer of the success message, and the finally block lowers the busy
\* flag.  Calls started by the effect are awaited by nobody.
HandlerResumes(id) ==
  IF Awaiting(id) = {}
    THEN UNCHANGED opVars
    ELSE LET i == CHOOSE j \in Awaiting(id) : TRUE
         IN  /\ ops' = [ops EXCEPT ![i].status = "timer"]
             /\ IF ops[i].kind = "create"
                  THEN \E today \in FormNows : form' = DefaultForm(today)
                  ELSE UNCHANGED form
             /\ loading' = FALSE
             /\ UNCHANGED successMessage

\* the answer of a request once nothing refers to it any more
Dropped == [state |-> "dropped", value |-> <<>>]

\* the page holds the answers of call i, so they are replaced when another
\* call of the page stores its answers
Replaced(i, page) ==
  /\ loads[i].page = page
  /\ loads[i].status = "done"
  /\ origin[page].transactions = i

\* the rest of the try block and the finally block of a call, run when
\* Promise.all has fulfilled: the three setState calls are batched into one
\* update, and the TransactionsPage derives its values from the new state
\* (the HomePage derives its values in HomeRender, which reads the clock)
LoadStores(id, load) ==
  /\ loads' = [i \in 1..Len(loads) |->
                 CASE i = id -> [load EXCEPT !.status = "done", !.since = 0]
                   [] i # id /\ Replaced(i, load.page) ->
                        [loads[i] EXCEPT !.fetches = [k \in Endpoints |-> Dropped]]
                   [] OTHER -> loads[i]]
  /\ origin' = [origin EXCEPT ![load.page] =
                  [transactions |-> id, accounts |-> id, categories |-> id]]
  /\ IF load.page = "transactions"
       THEN /\ transactions' = load.fetches[1].value
            /\ accounts' = load.fetches[2].value
            /\ categories' = load.fetches[3].value
            /\ PageRender(transactions', filters, accounts', categories')
            /\ dataLoading' = FALSE
            /\ UNCHANGED <<filters, homeVars, homeLoading>>
       ELSE /\ homeTransactions' = load.fetches[1].value
            /\ homeAccounts' = load.fetches[2].value
            /\ homeCategories' = load.fetches[3].value
            /\ homeLoading' = FALSE
            /\ UNCHANGED <<accountBalances, now, summary, monthlyData,
                           categoryData, recentTransactions, weeklyData>>
            /\ UNCHANGED <<pageVars, dataLoading>>
  /\ HandlerResumes(id)
  /\ UNCHANGED <<route, session, server, error>>
  /\ UNCHANGED authVars

\* the catch block and the finally block of a call, run when Promise.all
\* has rejected with err: the TransactionsPage stores the message, the
\* HomePage only logs it; the answers of the call are dropped
LoadCatches(id, load, err) ==
  /\ loads' = [loads EXCEPT ![id] =
                 [NewLoad(load.page) EXCEPT !.status = "failed", !.since = 0]]
  /\ IF load.page = "transactions"
       THEN error' = MessageOr(err, StrFailedToLoad) /\ dataLoading' = FALSE
            /\ UNCHANGED homeLoading
       ELSE homeLoading' = FALSE /\ UNCHANGED <<error, dataLoading>>
  /\ HandlerResumes(id)
  /\ UNCHANGED <<route, session, server, origin>>
  /\ UNCHANGED <<pageVars, homeVars, authVars>>

\* apiGet of request k of call id returns the parsed body of an ok
\* response.  The backend has read the data at some moment since the
\* request was sent, so the answer shows a version between the one at that
\* time and the current one.  When the answer fulfils Promise.all the call
\* resumes behind its await in the same turn of the event loop.
apiGetReturns(id, k) ==
  /\ loads[id].status = "pending"
  /\ loads[id].fetches[k].state = "pending"
  /\ \E body \in { ServerResponse(v, k) : v \in loads[id].since..server } :
       LET outcome == apiGet(OkResponse(body))
           load == [loads[id] EXCEPT !.fetches[k] =
                      [state |-> "fulfilled", value |-> outcome.value]]
       IN  /\ ~outcome.thrown
           /\ IF PromiseAllFulfilled(load)
                THEN LoadStores(id, load)
                ELSE /\ loads' = [loads EXCEPT ![id] = load]
                     /\ UNCHANGED <<route, session, server, origin, dataLoading,
                                    error, homeLoading>>
                     /\ UNCHANGED <<pageVars, homeVars, authVars, opVars>>

\* apiGet of a request of call id that is still outstanding throws because
\* the response is not ok: Promise.all rejects at once and the call resumes
\* in its catch block, whichever request it was; the other answers are
\* dropped
apiGetThrows(id) ==
  /\ loads[id].status = "pending"
  /\ \E body \in ErrorBodies :
       LET outcome == apiGet(ErrorResponse(body))
       IN  /\ outcome.thrown
           /\ LoadCatches(id, loads[id], outcome.value)

\* the data held by the backend changes
ServerChanges ==
  /\ server < MaxServerVersion
  /\ server' = server + 1
  /\ UNCHANGED <<route, session, loads, origin, dataLoading, error,
                 homeLoading>>
  /\ UNCHANGED <<pageVars, homeVars, authVars, opVars>>

\* a page right after it was mounted, before any call: every useState holds
\* its initial value, dataLoading starts as true
LoadInit ==
  /\ PageEmpty
  /\ HomeEmpty
  /\ route \in { "home", "transactions" }
  /\ AuthSettled(SessionA)
  /\ OpsIdle
  /\ server = 0
  /\ loads = <<>>
  /\ origin = [home |-> NoOrigin, transactions |-> NoOrigin]
  /\ dataLoading = TRUE
  /\ error = Null
  /\ homeLoading = FALSE

LoadNext ==
  \/ loadData
  \/ loadDashboardData
  \/ \E id \in 1..Len(loads), k \in Endpoints : apiGetReturns(id, k)
  \/ \E id \in 1..Len(loads) : apiGetThrows(id)
  \/ ServerChanges

SpecLoad == LoadInit /\ [][LoadNext]_vars

Init ==
  /\ transactions \in DistinctSeqs(TxUniverse, MaxTx)
  /\ \E c \in Collections : accounts = c.accounts /\ categories = c.categories
  /\ filters = NoFilters
  /\ filteredTransactions =
       FilterTransactions(transactions, filters, accounts, categories)
  /\ renderThrew = FilterThrows(transactions, filters, accounts, categories)
  /\ filteredSummary = Summarize(filteredTransactions)
  /\ HomeEmpty
  /\ route = "transactions"
  /\ LoadIdle

Next ==
  \/ SetSearchQuery
  \/ SetDateFrom
  \/ SetDateTo
  \/ SetAccountId
  \/ SetCategoryId
  \/ SetType
  \/ SetMinAmount
  \/ SetMaxAmount
  \/ clearFilters

Spec == Init /\ [][Next]_vars

\* The dashboard right after a load has stored its collections
HomeInit ==
  /\ homeTransactions \in DistinctSeqs(HomeTxUniverse, MaxHomeTx)
  /\ \E c \in HomeCollections :
       homeAccounts = c.accounts /\ homeCategories = c.categories
  /\ HomeUnrendered
  /\ PageEmpty
  /\ route = "home"
  /\ LoadIdle

HomeNext == HomeRender

SpecHome == HomeInit /\ [][HomeNext]_vars

\* ------------------------------------------------------------------------
\* Properties of the transaction filter
\* ------------------------------------------------------------------------
\* the render produced a list and t is in it
Retained(t) == ~renderThrew /\ t \in Range(filteredTransactions)

DateFromHolds(t, f) == f.dateFrom = EmptyStr \/ ~DateStrLt(t.date, f.dateFrom)

DateToHolds(t, f) == f.dateTo = EmptyStr \/ ~DateStrLt(f.dateTo, t.date)

AccountHolds(t, f) == f.accountId = "" \/ t.account_id = f.accountId

CategoryHolds(t, f) ==
  \/ f.categoryId = ""
  \/ f.categoryId = "uncategorized" /\ t.category_id = Null
  \/ f.categoryId # "uncategorized" /\ t.category_id = f.categoryId

TypeHolds(t, f) == f.type = "" \/ t.type = f.type

MinAmountHolds(t, f) ==
  isNaN(parseFloat(f.minAmount)) \/ ~NumLt(t.amount, parseFloat(f.minAmount))

MaxAmountHolds(t, f) ==
  isNaN(parseFloat(f.maxAmount)) \/ ~NumGt(t.amount, parseFloat(f.maxAmount))

\* the account name a transaction resolves to
ResolvedAccountName(t, accs) ==
  IF \E i \in 1..Len(accs) : accs[i].id = t.account_id
    THEN (CHOOSE a \in Range(accs) : a.id = t.account_id).name
    ELSE StrUnknownAccount

\* the category name a transaction resolves to
ResolvedCategoryName(t, cats) ==
  IF t.category_id = Null THEN StrUncategorized
  ELSE IF \E i \in 1..Len(cats) : cats[i].id = t.category_id
    THEN (CHOOSE c \in Range(cats) : c.id = t.category_id).name
    ELSE StrUnknownCategory

SearchHolds(t, f, accs, cats) ==
  \/ f.searchQuery = EmptyStr
  \/ LET q == toLowerCase(f.searchQuery)
     IN  \/ includes(toLowerCase(IF t.description = NullStr
                                   THEN EmptyStr ELSE t.description), q)
         \/ includes(toLowerCase(ResolvedAccountName(t, accs)), q)
         \/ includes(toLowerCase(ResolvedCategoryName(t, cats)), q)

\* C1: the filter retains a transaction if and only if every set
\* constraint holds for it (dates, account, category, type, amount bounds
\* and search), and excludes it only when one of them fails.
C1_RetainedIffAllConstraintsHold ==
  \A i \in 1..Len(transactions) :
    LET t == transactions[i]
    IN  Retained(t) <=>
          /\ DateFromHolds(t, filters)
          /\ DateToHolds(t, filters)
          /\ AccountHolds(t, filters)
          /\ CategoryHolds(t, filters)
          /\ TypeHolds(t, filters)
          /\ MinAmountHolds(t, filters)
          /\ MaxAmountHolds(t, filters)
          /\ SearchHolds(t, filters, accounts, categories)

\* C2: evaluating the filter never raises: every render of the page
\* completes and yields a list, whatever the filters and collections are.
C2_FilterNeverRaises == ~renderThrew

\* C3: with a non-empty search query, a transaction that passes every
\* other constraint is retained exactly when the lowercased query occurs in
\* its lowercased description, account name or category name.
C3_SearchRetainsMatches ==
  filters.searchQuery # EmptyStr =>
    \A i \in 1..Len(transactions) :
      LET t == transactions[i]
      IN  (/\ DateFromHolds(t, filters)
           /\ DateToHolds(t, filters)
           /\ AccountHolds(t, filters)
           /\ CategoryHolds(t, filters)
           /\ TypeHolds(t, filters)
           /\ MinAmountHolds(t, filters)
           /\ MaxAmountHolds(t, filters))
          => (Retained(t) <=> SearchHolds(t, filters, accounts, categories))

\* the outcome of the last render is the outcome the filter has under g
SameOutcomeAs(g) ==
  /\ renderThrew = FilterThrows(transactions, g, accounts, categories)
  /\ filteredTransactions =
       FilterTransactions(transactions, g, accounts, categories)

RECURSIVE TrimRight(_)
TrimRight(s) ==
  IF s # <<>> /\ s[Len(s)] \in WhiteSpace
    THEN TrimRight(SubSeq(s, 1, Len(s) - 1)) ELSE s

\* digits with at most one decimal point and at least one digit
IsDecimalLiteral(b) ==
  /\ \A i \in 1..Len(b) : b[i] \in Digits \cup {"."}
  /\ Cardinality({ i \in 1..Len(b) : b[i] = "." }) <= 1
  /\ \E i \in 1..Len(b) : b[i] \in Digits

\* an optional sign and at least one digit
IsSignedInteger(b) ==
  LET u == IF b # <<>> /\ Head(b) \in {"+", "-"} THEN Tail(b) ELSE b
  IN  u # <<>> /\ \A i \in 1..Len(u) : u[i] \in Digits

\* the whole string, white space at both ends aside, is a decimal number
IsNumberString(s) ==
  LET t == TrimRight(Drop(s, LeadingIn(s, WhiteSpace)))
      u == IF t # <<>> /\ Head(t) \in {"+", "-"} THEN Tail(t) ELSE t
  IN  \/ u = InfinityLit
      \/ IsDecimalLiteral(u)
      \/ \E k \in 1..Len(u) :
           /\ u[k] \in {"e", "E"}
           /\ IsDecimalLiteral(SubSeq(u, 1, k - 1))
           /\ IsSignedInteger(SubSeq(u, k + 1, Len(u)))

C5_NoFiltersIsIdentity ==
  filters = NoFilters => (~renderThrew /\ filteredTransactions = transactions)

\* no filter is set and a list of several transactions is shown in full
C5_Witness ==
  /\ filters = NoFilters
  /\ Len(transactions) >= 2
  /\ filteredTransactions = transactions

\* C6: with the category filter set, a transaction that passes the other
\* constraints is retained exactly when its category_id is null (sentinel
\* "uncategorized") or equals the filter's value (any other value).
C6_CategoryFilterExact ==
  filters.categoryId # "" =>
    \A i \in 1..Len(transactions) :
      LET t == transactions[i]
      IN  (/\ DateFromHolds(t, filters)
           /\ DateToHolds(t, filters)
           /\ AccountHolds(t, filters)
           /\ TypeHolds(t, filters)
           /\ MinAmountHolds(t, filters)
           /\ MaxAmountHolds(t, filters)
           /\ SearchHolds(t, filters, accounts, categories))
          => (Retained(t) <=>
                IF filters.categoryId = "uncategorized"
                  THEN t.category_id = Null
                  ELSE t.category_id = filters.categoryId)

RECURSIVE IsSubsequence(_, _)
\* a can be obtained from b by deleting elements
IsSubsequence(a, b) ==
  IF a = <<>> THEN TRUE
  ELSE IF b = <<>> THEN FALSE
  ELSE IF Head(a) = Head(b) THEN IsSubsequence(Tail(a), Tail(b))
  ELSE IsSubsequence(a, Tail(b))

\* C7: the list a render produces is an order-preserving subsequence of
\* the transaction list.
C7_ResultIsSubsequence ==
  ~renderThrew => IsSubsequence(filteredTransactions, transactions)

\* the first and the third of three transactions are retained
C7_Witness ==
  /\ ~renderThrew
  /\ Len(transactions) = 3
  /\ filteredTransactions = <<transactions[1], transactions[3]>>

\* ------------------------------------------------------------------------
\* Properties of the account balances
\* ------------------------------------------------------------------------
\* the transactions of the account with the given id
OwnTransactions(id) == { t \in Range(homeTransactions) : t.account_id = id }

\* those of them that no other one follows by date
LatestByDate(id) ==
  { t \in OwnTransactions(id) :
      \A u \in OwnTransactions(id) : ~DateStrLt(t.date, u.date) }

\* C8: for an account with transactions the current balance is the
\* balance_after of the latest transaction by date, whatever that value is,
\* and the transaction count is the number of the account's transactions.
C8_BalanceIsLatestBalanceAfter ==
  \A i \in 1..Len(accountBalances) :
    LET b == accountBalances[i]
    IN  OwnTransactions(b.id) # {} =>
          /\ b.currentBalance \in
               { t.balance_after : t \in LatestByDate(b.id) }
          /\ b.transactionCount = Cardinality(OwnTransactions(b.id))

\* all orders in which the elements of the sequence q can arrive
ArrivalOrders(q) ==
  { [i \in 1..Len(q) |-> q[p[i]]] :
      p \in { f \in [1..Len(q) -> 1..Len(q)] :
                \A i, j \in 1..Len(q) : f[i] = f[j] => i = j } }

\* C9: the current balances depend on the set of transactions only: every
\* order of arrival of the same transactions gives the same balances.
C9_BalanceIgnoresArrivalOrder ==
  Len(accountBalances) = Len(homeAccounts) =>
    \A q \in ArrivalOrders(homeTransactions) :
      \A i \in 1..Len(homeAccounts) :
        AccountBalance(homeAccounts[i], q).currentBalance
          = accountBalances[i].currentBalance

\* C10: for an account without transactions the current balance is the
\* initial balance and the transaction count is 0.
C10_NoTransactionsGivesInitialBalance ==
  \A i \in 1..Len(accountBalances) :
    LET b == accountBalances[i]
    IN  OwnTransactions(b.id) = {} =>
          /\ b.currentBalance = homeAccounts[i].initial_balance
          /\ b.transactionCount = 0

\* a rendered account without transactions and a non-zero initial balance,
\* next to an account that has transactions
C10_Witness ==
  /\ homeTransactions # <<>>
  /\ \E i \in 1..Len(accountBalances) :
       /\ OwnTransactions(accountBalances[i].id) = {}
       /\ homeAccounts[i].initial_balance # 0
       /\ accountBalances[i].currentBalance = homeAccounts[i].initial_balance

\* ------------------------------------------------------------------------
\* Properties of the dashboard trends
\* ------------------------------------------------------------------------
\* the HomePage body has run at least once
Rendered == now \in Nows

\* the month lying j months before the month <<y, m>>
MonthsBefore(ym, j) ==
  LET index == ym[1] * 12 + (ym[2] - 1) - j
  IN  << index \div 12, (index % 12) + 1 >>

\* the calendar date lying j days before the date dt
DaysBefore(dt, j) == CivilFromDays(DaysFromCivil(dt) - j)

\* the current date as the ISO strings of the application spell it (UTC)
Today == DaysBefore(now.local, 0 - now.utcShift)

RECURSIVE TotalOf(_)
\* the sum of the amounts of a set of transactions
TotalOf(S) ==
  IF S = {} THEN 0
  ELSE LET t == CHOOSE x \in S : TRUE IN t.amount + TotalOf(S \ {t})

\* the transactions of the given type dated in the month ym
InMonth(ym, type) ==
  { t \in Range(homeTransactions) :
      t.type = type /\ << t.date[1], t.date[2] >> = ym }

\* the transactions of the given type dated on the day dt
OnDay(dt, type) ==
  { t \in Range(homeTransactions) : t.type = type /\ t.date = dt }

\* C11: the monthly trend always has exactly 6 entries and the daily trend
\* exactly 7, whatever the transactions and the current date are; a period
\* without a transaction is present as an entry with income 0 and expense 0
C11_TrendLengthsFixed ==
  Rendered =>
    /\ Len(monthlyData) = 6
    /\ Len(weeklyData) = 7
    /\ \A k \in 1..6 :
         (\A t \in Range(homeTransactions) :
            << t.date[1], t.date[2] >> # toISOMonth(MonthDate(now, 6 - k)))
         => monthlyData[k].income = 0 /\ monthlyData[k].expense = 0
    /\ \A k \in 1..7 :
         (\A t \in Range(homeTransactions) :
            t.date # toISODate(DayDate(now, 7 - k)))
         => weeklyData[k].income = 0 /\ weeklyData[k].expense = 0

\* a rendered dashboard whose monthly trend has an entry with transactions
\* and an entry for a month without any
C11_Witness ==
  /\ Rendered
  /\ \E k \in 1..Len(monthlyData) : monthlyData[k].expense > 0
  /\ \E k \in 1..Len(monthlyData) :
       monthlyData[k].income = 0 /\ monthlyData[k].expense = 0
  /\ \E k \in 1..Len(weeklyData) : weeklyData[k].income > 0

\* C12: for every current date, the 29th, 30th and 31st included, the 6
\* monthly entries are the 6 consecutive calendar months ending with the
\* current month, oldest first, and the 7 daily entries are the 7
\* consecutive calendar days ending with the current day, oldest first
C12_BucketsAreConsecutivePeriods ==
  Rendered =>
    /\ \A k \in 1..Len(monthlyData) :
         monthlyData[k].month =
           MonthsBefore(<< now.local[1], now.local[2] >>, 6 - k)
    /\ \A k \in 1..Len(weeklyData) :
         weeklyData[k].day =
           (DaysFromCivil(DaysBefore(now.local, 7 - k)) + 4) % 7

\* C13: every transaction dated in the trailing 6-month window counts in the
\* entry of its own month, to income or expense by its type, and in no other
\* entry; each entry's net is its income minus its expense
C13_MonthEntriesHoldTheirMonth ==
  Rendered =>
    \A k \in 1..Len(monthlyData) :
      LET ym == MonthsBefore(<< Today[1], Today[2] >>, 6 - k)
      IN  /\ monthlyData[k].income = TotalOf(InMonth(ym, "INCOME"))
          /\ monthlyData[k].expense = TotalOf(InMonth(ym, "EXPENSE"))
          /\ monthlyData[k].net =
               monthlyData[k].income - monthlyData[k].expense

\* ------------------------------------------------------------------------
\* Properties of the summary
\* ------------------------------------------------------------------------
\* the transactions of a list that have the given type
WithType(ts, type) == { t \in Range(ts) : t.type = type }

\* s holds the five summary values of the list ts
IsSummaryOf(s, ts) ==
  /\ s.totalIncome = TotalOf(WithType(ts, "INCOME"))
  /\ s.totalExpense = TotalOf(WithType(ts, "EXPENSE"))
  /\ s.netBalance = s.totalIncome - s.totalExpense
  /\ s.incomeCount = Cardinality(WithType(ts, "INCOME"))
  /\ s.expenseCount = Cardinality(WithType(ts, "EXPENSE"))
  /\ ts = <<>> =>
       s = [totalIncome |-> 0, totalExpense |-> 0, netBalance |-> 0,
            incomeCount |-> 0, expenseCount |-> 0]

SummaryPlus(x, y) ==
  [totalIncome  |-> x.totalIncome + y.totalIncome,
   totalExpense |-> x.totalExpense + y.totalExpense,
   netBalance   |-> x.netBalance + y.netBalance,
   incomeCount  |-> x.incomeCount + y.incomeCount,
   expenseCount |-> x.expenseCount + y.expenseCount]

ExpensesIn(id) ==
  { t \in Range(homeTransactions) : t.type = "EXPENSE" /\ t.category_id = id }

\* the EXPENSE transactions without a category
ExpensesWithoutCategory ==
  { t \in Range(homeTransactions) :
      t.type = "EXPENSE" /\ t.category_id \in { Null, "" } }

\* the positions of the entries of the breakdown that carry the given name
EntriesNamed(name) ==
  { k \in 1..Len(categoryData) : categoryData[k].name = name }

\* C16: the breakdown holds exactly one entry per category whose EXPENSE
\* total is above 0, valued at that total, plus one "Uncategorized" entry
\* exactly when the uncategorized EXPENSE total is above 0; no entry has
\* value 0 and with a total expense of 0 the breakdown is empty
C16_BreakdownEntries ==
  Rendered =>
    /\ \A i \in 1..Len(homeCategories) :
         LET total == TotalOf(ExpensesIn(homeCategories[i].id))
             own   == EntriesNamed(homeCategories[i].name)
         IN  IF total > 0
               THEN Cardinality(own) = 1
                    /\ \A k \in own : categoryData[k].value = total
               ELSE own = {}
    /\ LET total == TotalOf(ExpensesWithoutCategory)
           own   == EntriesNamed(StrUncategorized)
       IN  IF total > 0
             THEN Cardinality(own) = 1
                  /\ \A k \in own : categoryData[k].value = total
             ELSE own = {}
    /\ \A k \in 1..Len(categoryData) :
         /\ categoryData[k].value > 0
         /\ categoryData[k].name \in
              { StrUncategorized } \cup
              { homeCategories[i].name : i \in 1..Len(homeCategories) }
    /\ summary.totalExpense = 0 => categoryData = <<>>

\* a rendered breakdown with a category entry and the "Uncategorized" entry,
\* while another category of the list has no expense and no entry
C16_Witness ==
  /\ Rendered
  /\ Len(homeCategories) = 2
  /\ Len(categoryData) = 2
  /\ categoryData[2].name = StrUncategorized

\* C17: the entries of the breakdown, the "Uncategorized" entry included,
\* are in descending order of value, and entries of equal value keep the
\* order of the category list
C17_BreakdownSortedDescending ==
  Rendered =>
    \A k \in 1..(Len(categoryData) - 1) :
      /\ categoryData[k].value >= categoryData[k + 1].value
      /\ ( /\ categoryData[k].value = categoryData[k + 1].value
           /\ categoryData[k + 1].name # StrUncategorized ) =>
           \E i, j \in 1..Len(homeCategories) :
             /\ i < j
             /\ homeCategories[i].name = categoryData[k].name
             /\ homeCategories[j].name = categoryData[k + 1].name

\* the absolute value of an integer
Abs(x) == IF x < 0 THEN 0 - x ELSE x

RECURSIVE DigitsSum(_)
\* the sum of the percentages of the entries, in tenths
DigitsSum(items) ==
  IF items = <<>> THEN 0
  ELSE items[1].percentage.digits + DigitsSum(Tail(items))

RECURSIVE ValueSum(_)
\* the sum of the values of the entries
ValueSum(items) ==
  IF items = <<>> THEN 0 ELSE items[1].value + ValueSum(Tail(items))

\* every EXPENSE transaction is uncategorized or names a listed category
AllExpensesCovered ==
  \A t \in Range(homeTransactions) :
    t.type = "EXPENSE" =>
      \/ t.category_id \in { Null, "" }
      \/ \E i \in 1..Len(homeCategories) : homeCategories[i].id = t.category_id

C19_RenderKeepsCollections ==
  [][ /\ homeTransactions' = homeTransactions
      /\ homeAccounts' = homeAccounts
      /\ homeCategories' = homeCategories ]_vars

\* the three collections the page p holds in state
CollectionsOf(p) ==
  IF p = "transactions"
    THEN << transactions, accounts, categories >>
    ELSE << homeTransactions, homeAccounts, homeCategories >>

\* the three collections of page p are the answers of one call of its load
\* function whose three requests were all answered
FromOneCompleteLoad(p) ==
  LET id == origin[p].transactions
  IN  /\ origin[p].accounts = id
      /\ origin[p].categories = id
      /\ id \in 1..Len(loads)
      /\ loads[id].page = p
      /\ loads[id].status = "done"
      /\ \A k \in Endpoints :
           /\ loads[id].fetches[k].state = "fulfilled"
           /\ CollectionsOf(p)[k] = loads[id].fetches[k].value

\* the three collections of page p are the empty arrays of its useState calls
StillInitial(p) ==
  /\ origin[p] = NoOrigin
  /\ CollectionsOf(p) = << <<>>, <<>>, <<>> >>

\* a call of a load function that fails replaces none of the collections
FailedLoadKeepsCollections ==
  \A id \in 1..Len(loads) :
    (loads[id].status = "pending" /\ loads'[id].status = "failed")
      => /\ UNCHANGED CollectionsOf(loads[id].page)
         /\ UNCHANGED origin

C27_BreakdownSumsToTotalExpense ==
  Rendered => ValueSum(categoryData) = summary.totalExpense

\* ------------------------------------------------------------------------
\* TransactionsPage: the quick filters (src/app/transactions/page.tsx)
\* ------------------------------------------------------------------------
\* the literal "100000" of the Large Amounts button
StrLargeAmount == <<"1", "0", "0", "0", "0", "0">>

\* instants at which a quick filter can be clicked
QuickNows == Nows \cup { DateNow(<<2024, 5, 5>>, 0) }

\* date.getFullYear(): year of the local date
getFullYear(date) == date.local[1]

\* new Date(date.getTime() - days * 24 * 60 * 60 * 1000): the instant that
\* many days earlier; the time of day is the same, so the local and the UTC
\* calendar date both move back by that many days
DateMinusDays(date, days) ==
  [date EXCEPT !.local = CivilFromDays(DaysFromCivil(date.local) - days)]

\* the number of days by which the UTC calendar date of local midnight can
\* differ from the local date on the machine that measured the instant
\* date: east of Greenwich local midnight falls on the previous UTC day,
\* elsewhere on the same day
MidnightShifts(date) ==
  CASE date.utcShift = -1 -> { -1 }
    [] date.utcShift = 1  -> { 0 }
    [] OTHER              -> { -1, 0 }

\* new Date(year, month, day): local midnight of that calendar date; the
\* month is zero-based, a month outside 0..11 carries into the year and a
\* day beyond the end of the month carries into the next month
DateOf(year, month, day, midnightShift) ==
  LET first == DaysFromCivil(<<year + month \div 12, (month % 12) + 1, 1>>)
  IN  DateNow(CivilFromDays(first + day - 1), midnightShift)

\* a click on a quick filter: the card is rendered once data is loaded and
\* the list is not empty; setFilters(prev => ...) replaces the state and
\* React runs the component body again
QuickFilter(f) ==
  /\ ~renderThrew
  /\ ~dataLoading
  /\ Len(transactions) > 0
  /\ filters' = f
  /\ PageRender(transactions, f, accounts, categories)
  /\ UNCHANGED <<transactions, accounts, categories>>
  /\ UNCHANGED <<homeVars, loadVars, authVars, opVars>>

IncomeOnly == QuickFilter([filters EXCEPT !.type = "INCOME"])

ExpensesOnly == QuickFilter([filters EXCEPT !.type = "EXPENSE"])

Last7Days(today) ==
  LET lastWeek == DateMinusDays(today, 7)
  IN  QuickFilter([filters EXCEPT !.dateFrom = toISODate(lastWeek),
                                  !.dateTo = toISODate(today)])

Last30Days(today, midnightShift) ==
  LET lastMonth == DateOf(getFullYear(today), getMonth(today) - 1,
                          getDate(today), midnightShift)
  IN  QuickFilter([filters EXCEPT !.dateFrom = toISODate(lastMonth),
                                  !.dateTo = toISODate(today)])

LargeAmounts == QuickFilter([filters EXCEPT !.minAmount = StrLargeAmount])

UncategorizedOnly == QuickFilter([filters EXCEPT !.categoryId = "uncategorized"])

\* the TransactionsPage after a load has stored the collections
QuickInit ==
  /\ server \in 0..MaxServerVersion
  /\ transactions = ServerResponse(server, 1)
  /\ accounts = ServerResponse(server, 2)
  /\ categories = ServerResponse(server, 3)
  /\ filters = NoFilters
  /\ filteredTransactions =
       FilterTransactions(transactions, filters, accounts, categories)
  /\ renderThrew = FilterThrows(transactions, filters, accounts, categories)
  /\ filteredSummary = Summarize(filteredTransactions)
  /\ HomeEmpty
  /\ route = "transactions"
  /\ AuthSettled(SessionA)
  /\ OpsIdle
  /\ loads = <<>>
  /\ origin = [home |-> NoOrigin, transactions |-> NoOrigin]
  /\ dataLoading = FALSE
  /\ error = Null
  /\ homeLoading = FALSE

QuickNext ==
  \/ IncomeOnly
  \/ ExpensesOnly
  \/ \E today \in QuickNows : Last7Days(today)
  \/ \E today \in QuickNows :
       \E midnightShift \in MidnightShifts(today) : Last30Days(today, midnightShift)
  \/ LargeAmounts
  \/ UncategorizedOnly
  \/ clearFilters

SpecQuick == QuickInit /\ [][QuickNext]_vars

\* ------------------------------------------------------------------------
\* Properties of the quick filters
\* ------------------------------------------------------------------------
\* C23: each quick filter changes only its own fields of the filter and
\* leaves every other field unchanged: Income Only and Expenses Only set
\* type, Large Amounts sets min_amount, Uncategorized sets category_id, and
\* Last 7 Days and Last 30 Days set date_from and date_to, date_to to today
\* and date_from to the day exactly 7 (30) days before it.  Holding at
\* every click, this gives each field the value of the last quick filter
\* that set it.
C23_QuickFiltersSetOnlyTheirFields ==
  [][ /\ IncomeOnly => filters' = [filters EXCEPT !.type = "INCOME"]
      /\ ExpensesOnly => filters' = [filters EXCEPT !.type = "EXPENSE"]
      /\ LargeAmounts => filters' = [filters EXCEPT !.minAmount = StrLargeAmount]
      /\ UncategorizedOnly =>
           filters' = [filters EXCEPT !.categoryId = "uncategorized"]
      /\ \A today \in QuickNows :
           Last7Days(today) =>
             filters' = [filters EXCEPT
                           !.dateTo = toISODate(today),
                           !.dateFrom = DaysBefore(toISODate(today), 7)]
      /\ \A today \in QuickNows : \A midnightShift \in MidnightShifts(today) :
           Last30Days(today, midnightShift) =>
             filters' = [filters EXCEPT
                           !.dateTo = toISODate(today),
                           !.dateFrom = DaysBefore(toISODate(today), 30)]
    ]_vars

\* ------------------------------------------------------------------------
\* TransactionsPage: onCreateTransaction and onDelete
\* (src/app/transactions/page.tsx).  onUpdate cannot run: the form that
\* calls it is rendered for the transaction whose id equals editingId, and
\* the page only ever sets editingId to null.
\* ------------------------------------------------------------------------
StrValidAmount == "Please enter a valid amount"

StrSelectAccount == "Please select an account"

StrFailedToCreate == "Failed to create transaction"

StrFailedToDelete == "Failed to delete transaction"

\* s.trim()
trim(s) == TrimRight(Drop(s, LeadingIn(s, WhiteSpace)))

\* a call of a handler that has sent its request: the backend data is held
\* as a version, so what is created or deleted does not enter the state;
\* load is the call of loadData the handler awaits, 0 before it
NewOp(kind) == [kind |-> kind, status |-> "sent", load |-> 0]

\* the amount check that lets zero pass
AmountRejected_AllowZero(amountValue) ==
  isNaN(amountValue) \/ NumGt(0, amountValue)

\* isNaN(amountValue) || amountValue <= 0
AmountRejected(amountValue) ==
  isNaN(amountValue) \/ ~NumLt(0, amountValue)

\* lines 341-343: the busy flag is raised, both messages are cleared; then
\* the request is sent
HandlerBegins(kind) ==
  /\ loading' = TRUE
  /\ error' = Null
  /\ successMessage' = Null
  /\ ops' = Append(ops, NewOp(kind))

\* onCreateTransaction up to its first await: the three checks, then the
\* request
onCreateTransaction ==
  /\ Len(ops) < MaxOps
  /\ IF session = NoSession
       THEN UNCHANGED <<error, opVars>>
       ELSE LET amountValue == parseFloat(form.amount)
            IN  IF AmountRejected(amountValue)
                  THEN error' = StrValidAmount /\ UNCHANGED opVars
                  ELSE IF ~TruthyId(form.accountId)
                    THEN error' = StrSelectAccount /\ UNCHANGED opVars
                    ELSE HandlerBegins("create") /\ UNCHANGED form
  /\ UNCHANGED <<route, session, server, loads, origin, dataLoading, homeLoading>>
  /\ UNCHANGED <<pageVars, homeVars, authVars>>

\* the form is on the screen and its submit button is enabled (line 568;
\* a form whose submit button is disabled is not submitted)
SubmitEnabled ==
  /\ view = "children"
  /\ ~renderThrew
  /\ ~dataLoading
  /\ ~( \/ ~TruthyId(form.accountId)
        \/ ~TruthyStr(trim(form.amount))
        \/ ~TruthyStr(form.date)
        \/ loading
        \/ Len(accounts) = 0 )

\* the user submits the form
SubmitForm == SubmitEnabled /\ onCreateTransaction

\* onDelete up to its await, called by the Delete button of a listed
\* transaction: the session check, the confirm dialog, then the request
onDelete(confirmed) ==
  /\ Len(ops) < MaxOps
  /\ IF session = NoSession \/ ~confirmed
       THEN UNCHANGED <<error, opVars>>
       ELSE HandlerBegins("delete") /\ UNCHANGED form
  /\ UNCHANGED <<route, session, server, loads, origin, dataLoading, homeLoading>>
  /\ UNCHANGED <<pageVars, homeVars, authVars>>

\* the list is on the screen and shows a transaction (lines 829-885); its
\* Delete buttons are never disabled
DeleteEnabled ==
  /\ view = "children"
  /\ ~renderThrew
  /\ ~dataLoading
  /\ filteredTransactions # <<>>

\* the user clicks Delete and answers the dialog
ClickDelete == DeleteEnabled /\ \E confirmed \in BOOLEAN : onDelete(confirmed)

\* the backend applies the request of call i
ServerApplies(i) ==
  /\ ops[i].status = "sent"
  /\ ops' = [ops EXCEPT ![i].status = "applied"]
  /\ server' = server + 1
  /\ UNCHANGED <<loading, successMessage, form>>
  /\ UNCHANGED <<route, session, loads, origin, dataLoading, error, homeLoading>>
  /\ UNCHANGED <<pageVars, homeVars, authVars>>

\* the handler of call i resumes behind its request with an ok response:
\* it sets the success message and calls loadData, which runs up to its own
\* await (loadData belongs to the render in which the handler was called,
\* where a session was present)
RequestSucceeds(i, message) ==
  /\ successMessage' = message
  /\ loadDataBegins
  /\ ops' = [ops EXCEPT ![i].status = "reloading", ![i].load = Len(loads) + 1]
  /\ UNCHANGED <<loading, form>>
  /\ UNCHANGED <<route, session, server, origin, homeLoading>>
  /\ UNCHANGED <<pageVars, homeVars, authVars>>

\* the catch block that also resets the form
RequestFails_ResetsForm(i, message) ==
  /\ error' = message
  /\ loading' = FALSE
  /\ ops' = [ops EXCEPT ![i].status = "failed"]
  /\ form' = DefaultForm(MountNow)
  /\ UNCHANGED successMessage
  /\ UNCHANGED <<route, session, server, loads, origin, dataLoading, homeLoading>>
  /\ UNCHANGED <<pageVars, homeVars, authVars>>

\* the handler of call i resumes in its catch block, then its finally block
RequestFails(i, message) ==
  /\ error' = message
  /\ loading' = FALSE
  /\ ops' = [ops EXCEPT ![i].status = "failed"]
  /\ UNCHANGED <<successMessage, form>>
  /\ UNCHANGED <<route, session, server, loads, origin, dataLoading, homeLoading>>
  /\ UNCHANGED <<pageVars, homeVars, authVars>>

apiPostReturns(i) ==
  /\ ops[i].kind = "create"
  /\ ops[i].status = "applied"
  /\ ~apiPost(OkResponse(<<>>)).thrown
  /\ RequestSucceeds(i, StrAdded)

apiPostThrows(i) ==
  /\ ops[i].kind = "create"
  /\ ops[i].status = "sent"
  /\ \E body \in ErrorBodies :
       LET outcome == apiPost(ErrorResponse(body))
       IN  /\ outcome.thrown
           /\ RequestFails(i, MessageOr(outcome.value, StrFailedToCreate))

apiDeleteReturns(i) ==
  /\ ops[i].kind = "delete"
  /\ ops[i].status = "applied"
  /\ ~apiDelete(OkResponse(<<>>)).thrown
  /\ RequestSucceeds(i, StrDeleted)

apiDeleteThrows(i) ==
  /\ ops[i].kind = "delete"
  /\ ops[i].status = "sent"
  /\ \E body \in ErrorBodies :
       LET outcome == apiDelete(ErrorResponse(body))
       IN  /\ outcome.thrown
           /\ RequestFails(i, MessageOr(outcome.value, StrFailedToDelete))

\* the timer a handler started (lines 188 and 377) clears the success message
TimerFires(i) ==
  /\ ops[i].status = "timer"
  /\ successMessage' = Null
  /\ ops' = [ops EXCEPT ![i].status = "done"]
  /\ UNCHANGED <<loading, form>>
  /\ UNCHANGED loadVars
  /\ UNCHANGED <<pageVars, homeVars, authVars>>

\* a form filled in by the user
Form(acc, cat, dt, desc, amount, type) ==
  [accountId |-> acc, categoryId |-> cat, date |-> dt, description |-> desc,
   amount |-> amount, type |-> type]

\* forms with which the submit button is enabled
OpsForms ==
  { Form("a1", "c1", D1, StrLunch, <<"2", "0">>, "EXPENSE"),
    Form("a1", "", D2, EmptyStr, <<"0">>, "INCOME") }

\* the call of loadData the effect on [session] made after the page was
\* mounted, settled with the answers of version 0
FirstLoad ==
  [page |-> "transactions", status |-> "done", since |-> 0,
   fetches |-> [k \in Endpoints |->
                  [state |-> "fulfilled", value |-> ServerResponse(0, k)]]]

\* the TransactionsPage after its first call of loadData has stored the
\* collections
Loaded ==
  /\ server = 0
  /\ loads = << FirstLoad >>
  /\ origin = [home |-> NoOrigin,
               transactions |-> [transactions |-> 1, accounts |-> 1,
                                 categories |-> 1]]
  /\ transactions = ServerResponse(0, 1)
  /\ accounts = ServerResponse(0, 2)
  /\ categories = ServerResponse(0, 3)
  /\ filters = NoFilters
  /\ filteredTransactions =
       FilterTransactions(transactions, filters, accounts, categories)
  /\ renderThrew = FilterThrows(transactions, filters, accounts, categories)
  /\ filteredSummary = Summarize(filteredTransactions)
  /\ HomeEmpty
  /\ route = "transactions"
  /\ dataLoading = FALSE
  /\ error = Null
  /\ homeLoading = FALSE
  /\ loading = FALSE
  /\ successMessage = Null
  /\ ops = <<>>

OpsInit ==
  /\ Loaded
  /\ AuthSettled(SessionA)
  /\ form \in OpsForms

OpsNext ==
  \/ SubmitForm
  \/ ClickDelete
  \/ \E i \in 1..Len(ops) : ServerApplies(i)
  \/ \E i \in 1..Len(ops) : apiPostReturns(i)
  \/ \E i \in 1..Len(ops) : apiPostThrows(i)
  \/ \E i \in 1..Len(ops) : apiDeleteReturns(i)
  \/ \E i \in 1..Len(ops) : apiDeleteThrows(i)
  \/ \E id \in 1..Len(loads), k \in Endpoints : apiGetReturns(id, k)
  \/ \E id \in 1..Len(loads) : apiGetThrows(id)
  \/ \E i \in 1..Len(ops) : TimerFires(i)

SpecOps == OpsInit /\ [][OpsNext]_vars

\* ------------------------------------------------------------------------
\* onCreateTransaction called on every state of the form, also on those in
\* which the page disables the submit button or Protected hides the form:
\* this is how the checks of the handler are reached
\* ------------------------------------------------------------------------
\* the states of the form the handler is called on
FormInputs ==
  OpsForms \cup
  { Form("", "", D2, EmptyStr, <<"2", "0">>, "EXPENSE"),
    Form("a1", "c1", D1, StrLunch, <<"a", "b", "c">>, "EXPENSE"),
    Form("a1", "", D1, EmptyStr, <<"-", "5">>, "INCOME"),
    Form("", "", D2, EmptyStr, EmptyStr, "EXPENSE"),
    Form("a1", "", D3, StrLunch, <<"1", "2", "a", "b", "c">>, "EXPENSE") }

\* the provider and the guard after logout was rendered and before the
\* effect of Protected has run
LoggedOut ==
  /\ session = NoSession
  /\ localStorage = <<>>
  /\ updates = <<>>
  /\ effects = { "Protected" }
  /\ view = ProtectedRender(route, session)
  /\ navigation = NoNavigation

FormInit ==
  /\ Loaded
  /\ AuthSettled(SessionA) \/ LoggedOut
  /\ form \in FormInputs

FormNext ==
  \/ onCreateTransaction
  \/ \E i \in 1..Len(ops) : ServerApplies(i)
  \/ \E i \in 1..Len(ops) : apiPostReturns(i)
  \/ \E i \in 1..Len(ops) : apiPostThrows(i)
  \/ \E id \in 1..Len(loads), k \in Endpoints : apiGetReturns(id, k)
  \/ \E id \in 1..Len(loads) : apiGetThrows(id)
  \/ \E i \in 1..Len(ops) : TimerFires(i)

SpecForm == FormInit /\ [][FormNext]_vars

\* ------------------------------------------------------------------------
\* Properties of onCreateTransaction
\* ------------------------------------------------------------------------
\* a create request is sent in this step
CreateSent ==
  /\ Len(ops') = Len(ops) + 1
  /\ ops'[Len(ops')].kind = "create"

\* the entered amount parses to a number strictly greater than 0
AmountIsPositive ==
  LET amountValue == parseFloat(form.amount)
  IN  ~isNaN(amountValue) /\ NumLt(0, amountValue)

\* an account is selected
AccountSelected == form.accountId # ""

\* C28: a create request is sent only when a session exists, the entered
\* amount parses to a number strictly greater than 0 and an account is
\* selected; when a check fails no request is sent and no reload is
\* started, and the amount and the account check set their error message
C28_CreateOnlyWhenChecksPass ==
  [][ /\ CreateSent =>
           session # NoSession /\ AmountIsPositive /\ AccountSelected
      /\ (onCreateTransaction
            /\ ~(session # NoSession /\ AmountIsPositive /\ AccountSelected)) =>
           /\ ops' = ops
           /\ loads' = loads
           /\ UNCHANGED <<transactions, accounts, categories>>
           /\ session # NoSession =>
                error' = IF AmountIsPositive THEN StrSelectAccount
                                             ELSE StrValidAmount
    ]_vars

\* the handler has refused a form with a positive amount and no account:
\* the error is set and no request was sent
C28_Witness ==
  /\ session # NoSession
  /\ AmountIsPositive
  /\ ~AccountSelected
  /\ error = StrSelectAccount
  /\ ops = <<>>
  /\ Len(loads) = 1
  /\ ~loading

\* the create request of call i fails in this step
CreateFails(i) ==
  /\ ops[i].kind = "create"
  /\ ops[i].status = "sent"
  /\ ops'[i].status = "failed"

\* every other call of a handler has finished, its timer included
OthersFinished(i) ==
  \A j \in 1..Len(ops) : j # i => ops[j].status \in { "done", "failed" }

\* the form is reset in this step by a create whose request has succeeded
\* and whose reload has settled
ResetAfterReload ==
  \E i \in 1..Len(ops) :
    /\ ops[i].kind = "create"
    /\ ops[i].status = "reloading"
    /\ ops'[i].status = "timer"
    /\ loads'[ops[i].load].status \in { "done", "failed" }
    /\ \E today \in FormNows : form' = DefaultForm(today)

\* C29: when the create request fails the form keeps the values the user
\* entered, the error message is the message of the failure, no reload is
\* started and no success message is shown; the form is reset to its
\* defaults only after the request succeeded and the reload has settled
C29_FailedCreateKeepsForm ==
  [][ /\ \A i \in 1..Len(ops) :
           CreateFails(i) =>
             /\ form' = form
             /\ error' \in ErrorBodies
             /\ loads' = loads
             /\ successMessage' = successMessage
             /\ OthersFinished(i) => successMessage' = Null
      /\ form' # form => ResetAfterReload
    ]_vars

\* a create request has failed and left the entered values in the form
\* together with the message of the failure
C29_Witness ==
  /\ Len(ops) = 1
  /\ ops[1].kind = "create"
  /\ ops[1].status = "failed"
  /\ error = StrServerError
  /\ form.amount = <<"2", "0">>
  /\ successMessage = Null
  /\ ~loading

\* ------------------------------------------------------------------------
\* Overlapping calls on the TransactionsPage
\* ------------------------------------------------------------------------

\* the calls of loadData the TransactionsPage has made, in the order in
\* which they were started
PageLoads == { i \in 1..Len(loads) : loads[i].page = "transactions" }

\* every call of loadData has settled
LoadsSettled == \A i \in PageLoads : loads[i].status # "pending"

\* the most recently started call of loadData
LatestStarted == CHOOSE i \in PageLoads : \A j \in PageLoads : j <= i

\* the call of loadData whose answers the page holds
Held == origin.transactions.transactions

\* C25: when calls of loadData overlap, the collections held once all of
\* them have settled are those of the most recently started call (if it
\* stored any), and the answers of an older call never replace those of a
\* newer one
C25_NewestLoadWins ==
  /\ [](LoadsSettled /\ loads[LatestStarted].status = "done"
          => Held = LatestStarted)
  /\ [][Held' >= Held]_vars

\* the calls of onCreateTransaction and onDelete that have not settled
OpsInFlight ==
  { i \in 1..Len(ops) : ops[i].status \in { "sent", "applied", "reloading" } }

\* C26: dataLoading is true exactly while a call of loadData has not
\* settled, and loading is true exactly while a create or delete has not
\* settled
C26_BusyFlagsTrackWork ==
  /\ dataLoading = (\E i \in PageLoads : loads[i].status = "pending")
  /\ loading = (OpsInFlight # {})

\* ------------------------------------------------------------------------
\* Responses that are not ok
\* ------------------------------------------------------------------------

\* the collections the two pages hold
AllCollections ==
  <<transactions, accounts, categories,
    homeTransactions, homeAccounts, homeCategories>>

\* each of the four helpers throws an Error whose message is the body text
\* when the response is not ok, and returns nothing
HelpersThrowBody ==
  \A body \in ErrorBodies :
    \A outcome \in { apiGet(ErrorResponse(body)), apiPost(ErrorResponse(body)),
                     apiPut(ErrorResponse(body)),
                     apiDelete(ErrorResponse(body)) } :
      outcome = Throws(Error(body))

\* call id of a page's load handler catches the Error of a response with
\* this body
LoadFailsWith(id, body) ==
  /\ loads[id].status = "pending"
  /\ LoadCatches(id, loads[id], apiGet(ErrorResponse(body)).value)

\* C21: every helper of lib/api.ts turns a response that is not ok into a
\* thrown Error whose message is the body text, and the load handler of
\* the page that made the call then stores that message as the page error
\* and replaces no collection
C21_FailureBecomesPageError ==
  /\ []HelpersThrowBody
  /\ [][\A id \in 1..Len(loads), body \in ErrorBodies :
          LoadFailsWith(id, body)
            => error' = body /\ UNCHANGED AllCollections]_vars

\* ------------------------------------------------------------------------
\* AuthProvider, Protected and the pages that call login and logout
\* ------------------------------------------------------------------------
\* (the pages' own effects, which start the loads, are the subject of
\* SpecLoad and SpecOps)

Routes == { "home", "login" } \cup ProtectedRoutes

\* the effects of the commit that mounts the page r: AuthProvider's
\* (layout) and, on a protected page, Protected's; React runs the effects
\* of one commit before it renders again
MountEffects(r) ==
  { "AuthProvider" } \cup (IF r \in ProtectedRoutes THEN { "Protected" } ELSE {})

\* the browser loads the page r: every component is mounted anew, so the
\* session state starts as null; localStorage is kept
PageLoad(r) ==
  /\ route' = r
  /\ session' = NoSession
  /\ updates' = <<>>
  /\ effects' = MountEffects(r)
  /\ view' = ProtectedRender(r, NoSession)
  /\ navigation' = NoNavigation
  /\ UNCHANGED localStorage
  /\ UNCHANGED <<server, loads, origin, dataLoading, error, homeLoading>>
  /\ UNCHANGED <<pageVars, homeVars, opVars>>

\* the user opens or reloads a page directly (address bar, bookmark, F5)
Open(r) == PageLoad(r)

\* the page load that the assignment to window.location.href started
LocationLoads ==
  /\ navigation.kind = "load"
  /\ PageLoad(navigation.to)

\* the navigation that router.replace started completes: the page is
\* replaced in the running application, whose session state is kept; the
\* effects of the page that is unmounted are dropped
RouterNavigates ==
  /\ navigation.kind = "replace"
  /\ route' = navigation.to
  /\ view' = ProtectedRender(navigation.to, session)
  /\ effects' = (effects \cap { "AuthProvider" })
                  \cup (MountEffects(navigation.to) \ { "AuthProvider" })
  /\ navigation' = NoNavigation
  /\ UNCHANGED <<session, localStorage, updates>>
  /\ UNCHANGED <<server, loads, origin, dataLoading, error, homeLoading>>
  /\ UNCHANGED <<pageVars, homeVars, opVars>>

\* the user follows a link to the page r: the layout and AuthProvider stay
\* mounted, the page is mounted with the session in state
FollowLink(r) ==
  /\ navigation = NoNavigation
  /\ effects = {}
  /\ r # route
  /\ route' = r
  /\ view' = ProtectedRender(r, session)
  /\ effects' = MountEffects(r) \ { "AuthProvider" }
  /\ UNCHANGED <<session, localStorage, updates, navigation>>
  /\ UNCHANGED <<server, loads, origin, dataLoading, error, homeLoading>>
  /\ UNCHANGED <<pageVars, homeVars, opVars>>

\* the mount effect of AuthProvider: a stored session is parsed and handed
\* to setSession, which React renders later
AuthProviderEffect ==
  /\ "AuthProvider" \in effects
  /\ effects' = effects \ { "AuthProvider" }
  /\ LET raw == getItem
     IN  IF raw # <<>>
           THEN updates' = Append(updates, << JSONparse(raw[1]) >>)
           ELSE UNCHANGED updates
  /\ UNCHANGED <<route, session, localStorage, view, navigation>>
  /\ UNCHANGED <<server, loads, origin, dataLoading, error, homeLoading>>
  /\ UNCHANGED <<pageVars, homeVars, opVars>>

\* the effect that never calls router.replace
ProtectedEffect_NeverRedirects ==
  /\ "Protected" \in effects
  /\ effects' = effects \ { "Protected" }
  /\ UNCHANGED <<route, view>>
  /\ UNCHANGED <<session, localStorage, updates, navigation>>
  /\ UNCHANGED <<server, loads, origin, dataLoading, error, homeLoading>>
  /\ UNCHANGED <<pageVars, homeVars, opVars>>

\* the effect of Protected, which sees the session of the render it belongs
\* to; router.replace starts a navigation that completes later
ProtectedEffect ==
  /\ "Protected" \in effects
  /\ effects' = effects \ { "Protected" }
  /\ IF ~TruthyLoading /\ session = NoSession
       THEN navigation' = RouterReplace("login")
       ELSE UNCHANGED navigation
  /\ UNCHANGED <<route, view>>
  /\ UNCHANGED <<session, localStorage, updates>>
  /\ UNCHANGED <<server, loads, origin, dataLoading, error, homeLoading>>
  /\ UNCHANGED <<pageVars, homeVars, opVars>>

\* React renders the queued setSession calls once the effects of the last
\* commit have run: the last value wins, Protected renders with it and its
\* effect is queued again because session is one of its dependencies
Render ==
  /\ effects = {}
  /\ updates # <<>>
  /\ session' = updates[Len(updates)]
  /\ updates' = <<>>
  /\ view' = ProtectedRender(route, session')
  /\ effects' = MountEffects(route) \ { "AuthProvider" }
  /\ UNCHANGED <<route, localStorage, navigation>>
  /\ UNCHANGED <<server, loads, origin, dataLoading, error, homeLoading>>
  /\ UNCHANGED <<pageVars, homeVars, opVars>>

\* login that leaves localStorage as it was
login_NoStore(s) ==
  /\ updates' = Append(updates, <<s>>)
  /\ UNCHANGED localStorage

\* login(s) of the context
login(s) ==
  /\ updates' = Append(updates, <<s>>)
  /\ localStorage' = << JSONstringify(s) >>

\* onSubmit of the LoginPage behind its await, when the backend accepted
\* the credentials and issued the session s: login, then the page load of
\* "/" is started
onSubmit(s) ==
  /\ route = "login"
  /\ navigation = NoNavigation
  /\ effects = {}
  /\ login(s)
  /\ navigation' = LocationHref("home")
  /\ UNCHANGED <<route, session, effects, view>>
  /\ UNCHANGED <<server, loads, origin, dataLoading, error, homeLoading>>
  /\ UNCHANGED <<pageVars, homeVars, opVars>>

\* logout of the context as the button of Navigation calls it (the button
\* is rendered with a session only); React renders the update of a click
\* before the handler's event ends
logout ==
  /\ session # NoSession
  /\ navigation = NoNavigation
  /\ effects = {}
  /\ session' = NoSession
  /\ updates' = <<>>
  /\ localStorage' = <<>>
  /\ view' = ProtectedRender(route, NoSession)
  /\ effects' = MountEffects(route) \ { "AuthProvider" }
  /\ UNCHANGED <<route, navigation>>
  /\ UNCHANGED <<server, loads, origin, dataLoading, error, homeLoading>>
  /\ UNCHANGED <<pageVars, homeVars, opVars>>

\* what the browser can hold in localStorage when a page is opened
StoredSessions == { <<>> } \cup { << JSONstringify(s) >> : s \in Sessions }

\* the browser before a page is opened
AuthInit ==
  /\ PageEmpty
  /\ HomeEmpty
  /\ OpsIdle
  /\ server = 0
  /\ loads = <<>>
  /\ origin = [home |-> NoOrigin, transactions |-> NoOrigin]
  /\ dataLoading = TRUE
  /\ error = Null
  /\ homeLoading = FALSE
  /\ localStorage \in StoredSessions
  /\ route \in Routes
  /\ session = NoSession
  /\ updates = <<>>
  /\ effects = MountEffects(route)
  /\ view = ProtectedRender(route, NoSession)
  /\ navigation = NoNavigation

AuthNext ==
  \/ \E r \in Routes : Open(r)
  \/ LocationLoads
  \/ RouterNavigates
  \/ \E r \in Routes : FollowLink(r)
  \/ AuthProviderEffect
  \/ ProtectedEffect
  \/ Render
  \/ \E s \in Sessions : onSubmit(s)
  \/ logout

SpecAuth == AuthInit /\ [][AuthNext]_vars

\* the effect of Protected is still to run, or the navigation to /login it
\* asked for is under way
RedirectDue ==
  \/ "Protected" \in effects
  \/ navigation = RouterReplace("login")

\* C22: Protected never shows its children while useAuth has no session;
\* whenever it is mounted without a session it navigates to /login (its
\* effect is due and asks the router for /login); with a session it shows
\* the children and its effect asks for no navigation
C22_ProtectedGuardsItsChildren ==
  /\ [](view = "children" => session # NoSession)
  /\ [](route \in ProtectedRoutes /\ session = NoSession => RedirectDue)
  /\ [](route \in ProtectedRoutes /\ session # NoSession => view = "children")
  /\ [][ProtectedEffect =>
          IF session = NoSession
            THEN navigation' = RouterReplace("login")
            ELSE navigation' = navigation]_vars

\* a protected page is mounted without a session: nothing is shown and the
\* effect has asked for /login
C22_Witness ==
  /\ route \in ProtectedRoutes
  /\ session = NoSession
  /\ view = "null"
  /\ "Protected" \notin effects
  /\ navigation = RouterReplace("login")

\* C24: with a session stored in localStorage, the effect of Protected
\* decides only after AuthProvider has restored that session, so it never
\* asks for /login
C24_StoredSessionIsNeverRedirected ==
  [][ProtectedEffect /\ getItem # <<>>
       => session # NoSession /\ navigation' = navigation]_vars

\* the session state once React has rendered the queued setSession calls
InMemory == IF updates = <<>> THEN session ELSE updates[Len(updates)]

\* the session that the item of localStorage spells
Stored == IF getItem = <<>> THEN NoSession ELSE << JSONparse(getItem[1]) >>

\* two session values are both null, or both sessions with the same value
\* for every property (a property that is missing reads as undefined)
Agree(a, b) ==
  IF a = NoSession \/ b = NoSession
    THEN a = b
    ELSE \A i \in 1..Len(SessionKeys) :
           Get(a[1], SessionKeys[i]) = Get(b[1], SessionKeys[i])

\* the mount effect of AuthProvider has run
MountEffectRan == "AuthProvider" \notin effects

\* C30: once the mount effect of AuthProvider has run, the session in
\* memory and the one in localStorage agree; after login(s) both hold s,
\* after logout both are empty, nothing else writes the item, and what is
\* rendered after a reload is the stored session
C30_SessionAgreesWithStorage ==
  /\ [](MountEffectRan => Agree(InMemory, Stored))
  /\ [][\A s \in Sessions :
          onSubmit(s) => Agree(InMemory', <<s>>) /\ Agree(Stored', <<s>>)]_vars
  /\ [][logout => InMemory' = NoSession /\ Stored' = NoSession]_vars
  /\ [][localStorage' # localStorage
          => logout \/ \E s \in Sessions : onSubmit(s)]_vars
  /\ [][Render => Agree(session', Stored)]_vars

\* a user with one session in memory has logged in with another one, and
\* the page load of "/" is under way
C30_Witness ==
  /\ navigation = LocationHref("home")
  /\ session # NoSession
  /\ ~Agree(session, InMemory)
  /\ Agree(InMemory, Stored)

====
